---- MODULE Spec2Model ----
(***************************************************************************)
(* shtick: shell alias/env/function manager.  Model of the configuration   *)
(* store (config.py), the activation state with its mtime cache            *)
(* (config.py), the ShtickManager API (shtick.py) and the ShtickCommands   *)
(* CLI handlers (commands.py).                                             *)
(*                                                                         *)
(* Strings whose content matters (keys, values, TOML text) are sequences   *)
(* of one-character strings; the characters that cannot be written as a    *)
(* plain letter are the tokens "dq" (double quote), "sq" (single quote),   *)
(* "bs" (backslash), "tab", "lf", "cr", "sp" (space) and "eq" (=).         *)
(* Group names are whole strings: the code never looks inside them.        *)
(***************************************************************************)
EXTENDS Naturals, Sequences, FiniteSets, TLC

VARIABLES
    loaded,       \* ShtickManager._config is not None
    groups,       \* Config.groups of the manager's Config: a list of GroupData
    cache,        \* per Config instance: the _active_groups_* instance attributes
    classCache,   \* the Config._active_groups_* class attributes
    cfgFile,      \* the config file: whether it exists, its sections (values as TOML text)
    activeFile,   \* the active_groups state file: whether it exists, its lines
    activeMtime,  \* os.path.getmtime of the state file
    loader,       \* the loader file: whether it exists, the groups it sources
    groupFiles,   \* per group name: whether the file exists, the maps it was rendered from
    clock,        \* the filesystem clock that stamps a written file
    tomliw,       \* whether "import tomli_w" succeeds in this installation
    stamped,      \* history: every write of the state file so far changed its mtime
    backups,      \* the backups directory: per backup name, the copy of the config file
    last          \* the last call made: operation, arguments, result

vars == <<loaded, groups, cache, classCache, cfgFile, activeFile, activeMtime,
          loader, groupFiles, clock, tomliw, stamped, backups, last>>

None == "None"
Unset == "Unset"

\* a file that does not exist (os.path.exists is False)
MissingCfg == [exists |-> FALSE, sections |-> <<>>]
MissingActive == [exists |-> FALSE, lines |-> <<>>]
MissingLoader == [exists |-> FALSE, sources |-> {}]
MissingBackup == [exists |-> FALSE, sections |-> <<>>]

\* an attribute that is not set, is None, or holds a value
UnsetAttr(d) == [st |-> "unset", v |-> d]
NoneAttr(d) == [st |-> "none", v |-> d]
Val(x) == [st |-> "val", v |-> x]

----------------------------------------------------------------------------
(* Bounds and input sets *)

\* the most items a configuration holds in the manager specification
MaxItems == 1
\* the longest value whose TOML round trip is checked
MaxLen == 4
\* the last tick of the filesystem clock
MaxClock == 2

\* security.py: len(key) > 64 is rejected
MaxKeyLen == 64
\* security.py: validate_value(value, max_length=4096)
MaxValueLen == 4096

Persistent == "persistent"
Names == {Persistent, "work", "dev"}
Created == {Persistent, "work"}
Kinds == {"alias", "env", "function"}
Keys == {<<"l", "l">>}
Values == {<<"e", "dq">>}
Inst == {1, 2}
ActivePath == "~/.config/shtick/active_groups"
\* backup names: the file of the name b is backups/config_<b>.toml;
\* restore_backup saves the current config under "before_restore" first
BeforeRestore == "before_restore"
BackupNames == {"a", BeforeRestore}
NoBackups == [b \in BackupNames |-> MissingBackup]

Letters ==
    {"a","b","c","d","e","f","g","h","i","j","k","l","m","n","o","p","q","r",
     "s","t","u","v","w","x","y","z","A","B","C","D","E","F","G","H","I","J",
     "K","L","M","N","O","P","Q","R","S","T","U","V","W","X","Y","Z"}
Digits == {"0","1","2","3","4","5","6","7","8","9"}
Whitespace == {"sp", "tab", "lf", "cr"}

----------------------------------------------------------------------------
(* Sequence helpers *)

\* the element of a one-element set.  The({e(x) : x \in {call}}) names the
\* result of a call x and evaluates the call once, where the code assigns the
\* result to a local variable
The(S) == CHOOSE x \in S : TRUE

InSeq(x, s) == \E i \in 1..Len(s) : s[i] = x

ToSet(s) == {s[i] : i \in 1..Len(s)}

\* the smallest index of x in s, 0 when absent (list.index / str.find)
IndexOf(x, s) ==
    IF InSeq(x, s) THEN CHOOSE i \in 1..Len(s) : s[i] = x /\ \A j \in 1..(i-1) : s[j] # x
    ELSE 0

\* list.remove(x): drops the first occurrence
RemoveFirst(x, s) ==
    LET i == IndexOf(x, s)
    IN  IF i = 0 THEN s ELSE SubSeq(s, 1, i-1) \o SubSeq(s, i+1, Len(s))

\* s[from..] as a sequence (empty when from > Len(s))
Drop(s, n) == SubSeq(s, n+1, Len(s))

\* whether s holds the sequence p at position i
HasAt(s, i, p) ==
    /\ i >= 1
    /\ i + Len(p) - 1 <= Len(s)
    /\ \A j \in 1..Len(p) : s[i + j - 1] = p[j]

\* whether p occurs in s ("p in s" on strings)
Contains(s, p) == \E i \in 1..(Len(s)+1) : HasAt(s, i, p)

\* the first position >= from where p occurs in s, 0 when none (str.index)
FindFrom(s, from, p) ==
    IF \E i \in from..Len(s) : HasAt(s, i, p)
    THEN CHOOSE i \in from..Len(s) :
            HasAt(s, i, p) /\ \A j \in from..(i-1) : ~HasAt(s, j, p)
    ELSE 0

\* all sequences over S of length at most n
RECURSIVE SeqsUpTo(_, _)
SeqsUpTo(S, n) ==
    IF n = 0 THEN {<<>>}
    ELSE LET shorter == SeqsUpTo(S, n-1)
         IN  shorter \cup {Append(s, c) : s \in {t \in shorter : Len(t) = n-1}, c \in S}

----------------------------------------------------------------------------
(* TOML strings: the fallback writer's escaping, tomli_w's escaping, and    *)
(* tomllib's reading of a string value                                      *)

\* str.replace(old, new) for a one-character old
RECURSIVE ReplaceChar(_, _, _)
ReplaceChar(s, old, new) ==
    IF s = <<>> THEN <<>>
    ELSE (IF Head(s) = old THEN new ELSE <<Head(s)>>) \o ReplaceChar(Tail(s), old, new)

\* the five replace() calls of escape_toml_value, in the code's order
EscapeBasic(value) ==
    LET e1 == ReplaceChar(value, "bs", <<"bs", "bs">>)
        e2 == ReplaceChar(e1, "dq", <<"bs", "dq">>)
        e3 == ReplaceChar(e2, "tab", <<"bs", "t">>)
        e4 == ReplaceChar(e3, "cr", <<"bs", "r">>)
    IN  ReplaceChar(e4, "lf", <<"bs", "n">>)

escape_toml_value(value) ==
    IF InSeq("lf", value) \/ InSeq("cr", value)
    THEN IF Contains(value, <<"sq", "sq", "sq">>)
         THEN <<"dq">> \o EscapeBasic(value) \o <<"dq">>
         ELSE <<"sq", "sq", "sq", "lf">> \o value \o <<"sq", "sq", "sq">>
    ELSE IF \E c \in {"dq", "bs", "tab", "cr", "lf"} : InSeq(c, value)
         THEN <<"dq">> \o EscapeBasic(value) \o <<"dq">>
         ELSE <<"dq">> \o value \o <<"dq">>

\* tomli_w.dump writes every string as a one-line basic string: the quote, the
\* backslash and the control characters other than tab are escaped
RECURSIVE TomliWEscape(_)
TomliWEscape(value) ==
    IF value = <<>> THEN <<>>
    ELSE LET c == Head(value)
             e == CASE c = "dq" -> <<"bs", "dq">>
                    [] c = "bs" -> <<"bs", "bs">>
                    [] c = "lf" -> <<"bs", "n">>
                    [] c = "cr" -> <<"bs", "r">>
                    [] OTHER -> <<c>>
         IN  e \o TomliWEscape(Tail(value))

tomli_w_string(value) == <<"dq">> \o TomliWEscape(value) \o <<"dq">>

\* tomllib: src = s.replace("\r\n", "\n") before anything is parsed
RECURSIVE NormalizeNewlines(_)
NormalizeNewlines(s) ==
    IF s = <<>> THEN <<>>
    ELSE IF HasAt(s, 1, <<"cr", "lf">>) THEN <<"lf">> \o NormalizeNewlines(Drop(s, 2))
    ELSE <<Head(s)>> \o NormalizeNewlines(Tail(s))

ParseFail == [ok |-> FALSE, value |-> <<>>, pos |-> 0]

\* tomllib BASIC_STR_ESCAPE_REPLACEMENTS (the \u and \U forms are not written
\* by either writer and are not modelled)
BasicEscape(c) ==
    CASE c = "b" -> "bksp"
      [] c = "t" -> "tab"
      [] c = "n" -> "lf"
      [] c = "f" -> "ff"
      [] c = "r" -> "cr"
      [] c = "dq" -> "dq"
      [] c = "bs" -> "bs"
      [] OTHER -> None

\* tomllib parse_basic_str(multiline=False), from the character after the quote
RECURSIVE ParseBasicStr(_, _, _)
ParseBasicStr(src, pos, acc) ==
    IF pos > Len(src) THEN ParseFail
    ELSE IF src[pos] = "dq" THEN [ok |-> TRUE, value |-> acc, pos |-> pos + 1]
    ELSE IF src[pos] = "bs"
         THEN IF pos + 1 > Len(src) \/ BasicEscape(src[pos + 1]) = None
              THEN ParseFail
              ELSE ParseBasicStr(src, pos + 2, Append(acc, BasicEscape(src[pos + 1])))
    ELSE IF src[pos] \in {"lf", "cr"} THEN ParseFail
    ELSE ParseBasicStr(src, pos + 1, Append(acc, src[pos]))

\* tomllib parse_multiline_str(literal=True): one newline after the opening
\* delimiter is dropped, the text runs to the next delimiter and may hold no
\* control character but tab and newline; up to two quotes right after the
\* delimiter belong to the value
ParseMultilineLiteral(src) ==
    LET start == IF HasAt(src, 4, <<"lf">>) THEN 5 ELSE 4
        endp == FindFrom(src, start, <<"sq", "sq", "sq">>)
    IN  IF endp = 0 THEN ParseFail
        ELSE LET text == SubSeq(src, start, endp - 1)
                 after == endp + 3
             IN  IF InSeq("cr", text) THEN ParseFail
                 ELSE IF ~HasAt(src, after, <<"sq">>)
                      THEN [ok |-> TRUE, value |-> text, pos |-> after]
                 ELSE IF ~HasAt(src, after + 1, <<"sq">>)
                      THEN [ok |-> TRUE, value |-> Append(text, "sq"), pos |-> after + 1]
                 ELSE [ok |-> TRUE, value |-> text \o <<"sq", "sq">>, pos |-> after + 2]

\* tomllib parse_literal_str: a one-line literal string
ParseLiteralStr(src) ==
    LET endp == FindFrom(src, 2, <<"sq">>)
    IN  IF endp = 0 THEN ParseFail
        ELSE LET text == SubSeq(src, 2, endp - 1)
             IN  IF InSeq("lf", text) \/ InSeq("cr", text) THEN ParseFail
                 ELSE [ok |-> TRUE, value |-> text, pos |-> endp + 1]

\* tomllib parse_value on the text written after "key = ", which must be used
\* up: what follows a value on its line makes the document invalid
toml_parse_string(text) ==
    The({ The({ IF r.ok /\ r.pos = Len(src) + 1 THEN r ELSE ParseFail
                : r \in {IF HasAt(src, 1, <<"dq", "dq", "dq">>) THEN ParseFail
                         ELSE IF HasAt(src, 1, <<"dq">>) THEN ParseBasicStr(src, 2, <<>>)
                         ELSE IF HasAt(src, 1, <<"sq", "sq", "sq">>)
                              THEN ParseMultilineLiteral(src)
                         ELSE IF HasAt(src, 1, <<"sq">>) THEN ParseLiteralStr(src)
                         ELSE ParseFail} })
          : src \in {NormalizeNewlines(text)} })

----------------------------------------------------------------------------
(* security.py *)

\* KEY_VALIDATION_PATTERN.match(key): ^[a-zA-Z_][a-zA-Z0-9_-]*$ ; Python's $
\* also matches before a newline that ends the string
KeyPatternMatches(key) ==
    LET body == IF Len(key) >= 1 /\ key[Len(key)] = "lf"
                THEN {key, SubSeq(key, 1, Len(key) - 1)} ELSE {key}
    IN  \E b \in body :
            /\ Len(b) >= 1
            /\ b[1] \in Letters \cup {"_"}
            /\ \A i \in 2..Len(b) : b[i] \in Letters \cup Digits \cup {"_", "-"}

\* validate_key: whether it returns (TRUE) or raises ValueError (FALSE)
validate_key(key) == KeyPatternMatches(key) /\ ~(Len(key) > MaxKeyLen)

\* validate_value
validate_value(value) == ~(Len(value) > MaxValueLen)

----------------------------------------------------------------------------
(* config.py: GroupData and Config *)

EmptyMap == [k \in {} |-> <<>>]

GroupData(name) == [name |-> name, aliases |-> EmptyMap, env_vars |-> EmptyMap,
                    functions |-> EmptyMap]

\* GroupData.get_items: the attribute of an item type, None for an unknown
\* type (where the code raises ValueError)
type_map(item_type) ==
    CASE item_type = "alias" -> "aliases"
      [] item_type = "env" -> "env_vars"
      [] item_type = "function" -> "functions"
      [] OTHER -> None

Sections == {"aliases", "env_vars", "functions"}

\* GroupData.total_items
total_items(g) ==
    Cardinality(DOMAIN g.aliases) + Cardinality(DOMAIN g.env_vars)
        + Cardinality(DOMAIN g.functions)

\* items[key] = value
MapSet(m, k, v) == [x \in (DOMAIN m) \cup {k} |-> IF x = k THEN v ELSE m[x]]

\* del items[key]
MapDel(m, k) == [x \in (DOMAIN m) \ {k} |-> m[x]]

\* Config.get_group: the index of the first group of that name, 0 for None
get_group(gs, name) ==
    IF \E i \in 1..Len(gs) : gs[i].name = name
    THEN CHOOSE i \in 1..Len(gs) :
            gs[i].name = name /\ \A j \in 1..(i-1) : gs[j].name # name
    ELSE 0

GroupNames(gs) == {gs[i].name : i \in 1..Len(gs)}

\* Config.add_group that appends a group whether or not the name is taken
add_group_Always(gs, name) == Append(gs, GroupData(name))

\* Config.add_group
add_group(gs, name) ==
    IF get_group(gs, name) # 0 THEN gs ELSE Append(gs, GroupData(name))

\* Config.add_item: add_group, then GroupData.set_item, which raises
\* ValueError for an unknown item type after the group was added
add_item(gs, item_type, name, key, value) ==
    The({ IF type_map(item_type) = None THEN [raised |-> "ValueError", groups |-> gs1]
          ELSE [raised |-> None,
                groups |-> [gs1 EXCEPT ![get_group(gs1, name)][type_map(item_type)] =
                               MapSet(gs1[get_group(gs1, name)][type_map(item_type)],
                                      key, value)]]
          : gs1 \in {add_group(gs, name)} })

\* Config.remove_item that deletes the key under every item type
remove_item_AllKinds(gs, item_type, name, key) ==
    LET i == get_group(gs, name)
        attr == type_map(item_type)
    IN  IF i = 0 THEN [raised |-> None, ret |-> FALSE, groups |-> gs]
        ELSE IF attr = None THEN [raised |-> "ValueError", ret |-> FALSE, groups |-> gs]
        ELSE IF key \in DOMAIN gs[i][attr]
             THEN [raised |-> None, ret |-> TRUE,
                   groups |-> [gs EXCEPT ![i] =
                                 [name |-> gs[i].name,
                                  aliases |-> MapDel(gs[i].aliases, key),
                                  env_vars |-> MapDel(gs[i].env_vars, key),
                                  functions |-> MapDel(gs[i].functions, key)]]]
             ELSE [raised |-> None, ret |-> FALSE, groups |-> gs]

\* Config.remove_item / GroupData.remove_item
remove_item(gs, item_type, name, key) ==
    LET i == get_group(gs, name)
        attr == type_map(item_type)
    IN  IF i = 0 THEN [raised |-> None, ret |-> FALSE, groups |-> gs]
        ELSE IF attr = None THEN [raised |-> "ValueError", ret |-> FALSE, groups |-> gs]
        ELSE IF key \in DOMAIN gs[i][attr]
             THEN [raised |-> None, ret |-> TRUE,
                   groups |-> [gs EXCEPT ![i][attr] = MapDel(gs[i][attr], key)]]
             ELSE [raised |-> None, ret |-> FALSE, groups |-> gs]

\* a TOML bare key: ASCII letters, digits, underscores and hyphens
BareKey(k) ==
    /\ k # <<>>
    /\ \A i \in 1..Len(k) : k[i] \in Letters \cup Digits \cup {"_", "-"}

\* a key as the writer in use writes it: tomli_w quotes a key that is no bare
\* key, the fallback writes f"{key} = ..." whatever the key is
toml_key_text(k, hasTomliW) ==
    IF hasTomliW /\ ~BareKey(k) THEN tomli_w_string(k) ELSE k

\* tomllib parse_key_part on the text before " = ": a bare key or a quoted one
toml_parse_key(text) ==
    IF BareKey(text) THEN [ok |-> TRUE, key |-> text]
    ELSE IF HasAt(text, 1, <<"dq">>)
    THEN The({ IF r.ok /\ r.pos = Len(text) + 1 THEN [ok |-> TRUE, key |-> r.value]
               ELSE [ok |-> FALSE, key |-> <<>>]
               : r \in {ParseBasicStr(text, 2, <<>>)} })
    ELSE [ok |-> FALSE, key |-> <<>>]

\* one group as its section of the config file, each key and each value as
\* the writer in use writes it
FileSection(g, hasTomliW) ==
    LET enc(v) == IF hasTomliW THEN tomli_w_string(v) ELSE escape_toml_value(v)
        line(m) == [t \in {toml_key_text(k, hasTomliW) : k \in DOMAIN m} |->
                       enc(m[CHOOSE k \in DOMAIN m : toml_key_text(k, hasTomliW) = t])]
    IN  [name |-> g.name, aliases |-> line(g.aliases), env_vars |-> line(g.env_vars),
         functions |-> line(g.functions)]

\* the tomli_w branch: data[group.name] = group_data keeps one table per
\* name, at the place of the first and with the content of the last
DictOf(gs) ==
    LET firsts == SelectSeq([i \in 1..Len(gs) |-> i],
                            LAMBDA i : get_group(gs, gs[i].name) = i)
        lastOf(n) == CHOOSE i \in 1..Len(gs) :
                        gs[i].name = n /\ \A j \in (i+1)..Len(gs) : gs[j].name # n
    IN  [p \in 1..Len(firsts) |-> gs[lastOf(gs[firsts[p]].name)]]

\* save_config_securely: the file's sections.  tomli_w writes the dictionary;
\* the fallback writes a header and three sub-tables per list entry
save_config_securely(gs, hasTomliW) ==
    IF hasTomliW
    THEN [i \in 1..Len(DictOf(gs)) |-> FileSection(DictOf(gs)[i], TRUE)]
    ELSE [i \in 1..Len(gs) |-> FileSection(gs[i], FALSE)]

\* tomllib.load accepts the file: no table is defined twice, every key is a
\* key tomllib can read and every value a string it can read
TomlValid(file) ==
    /\ \A i, j \in 1..Len(file) : file[i].name = file[j].name => i = j
    /\ \A i \in 1..Len(file) : \A sec \in Sections :
          \A k \in DOMAIN file[i][sec] :
              toml_parse_key(k).ok /\ toml_parse_string(file[i][sec][k]).ok

\* the key -> value map tomllib builds from a table of the file
ParsedTable(m) ==
    [k \in {toml_parse_key(t).key : t \in DOMAIN m} |->
        toml_parse_string(m[CHOOSE t \in DOMAIN m : toml_parse_key(t).key = k]).value]

\* the groups of a file, those without an item left out
ParsedGroups_SkipEmpty(file) ==
    LET kept == SelectSeq([i \in 1..Len(file) |-> i],
                          LAMBDA i : \E sec \in Sections : DOMAIN file[i][sec] # {})
    IN  [p \in 1..Len(kept) |->
            [name |-> file[kept[p]].name,
             aliases |-> ParsedTable(file[kept[p]].aliases),
             env_vars |-> ParsedTable(file[kept[p]].env_vars),
             functions |-> ParsedTable(file[kept[p]].functions)]]

\* the groups Config.load builds from a file tomllib.load accepts
ParsedGroups(file) ==
    [i \in 1..Len(file) |->
        [name |-> file[i].name,
         aliases |-> ParsedTable(file[i].aliases),
         env_vars |-> ParsedTable(file[i].env_vars),
         functions |-> ParsedTable(file[i].functions)]]

\* Config.load that empties self.groups before the file is read
ConfigLoad_ClearsFirst(gs, file) ==
    IF ~file.exists THEN [raised |-> "FileNotFoundError", groups |-> <<>>]
    ELSE IF ~TomlValid(file.sections) THEN [raised |-> "TOMLDecodeError", groups |-> <<>>]
    ELSE [raised |-> None, groups |-> ParsedGroups(file.sections)]

\* Config.load on a Config whose groups are gs
ConfigLoad(gs, file) ==
    IF ~file.exists THEN [raised |-> "FileNotFoundError", groups |-> gs]
    ELSE IF ~TomlValid(file.sections) THEN [raised |-> "TOMLDecodeError", groups |-> gs]
    ELSE [raised |-> None, groups |-> ParsedGroups(file.sections)]

----------------------------------------------------------------------------
(* config.py: the activation state and its cache *)

\* class Config: _active_groups_cache = _active_groups_mtime =
\* _active_groups_file_path = None
ClassAttrs0 == [list |-> NoneAttr(<<>>), mtime |-> NoneAttr(0), path |-> None]

\* a new Config instance has no attribute of its own
CacheAttrs0 == [list |-> UnsetAttr(<<>>), mtime |-> UnsetAttr(0), path |-> Unset]

\* self._active_groups_<f>: the instance attribute, else the class attribute
Attr(c, cls, f) ==
    IF f = "path" THEN (IF c.path = Unset THEN cls.path ELSE c.path)
    ELSE IF c[f].st = "unset" THEN cls[f] ELSE c[f]

NonEmptyLine(l) == l # ""

\* a group name with a blank in front of it
BlankWork == " work"

\* line.strip(): of the names of the model only BlankWork has a blank at an
\* end
strip(l) == IF l = BlankWork THEN "work" ELSE l

\* [line.strip() for line in f if line.strip()]
ReadActiveFile(lines) == SelectSeq([i \in 1..Len(lines) |-> strip(lines[i])], NonEmptyLine)

\* for group in active_groups: f.write(f"{group}\n")
WriteActiveFile(names) == names

\* Config.load_active_groups without the comparison of modification times
load_active_groups_NoMtime(c, cls, file, mtime) ==
    IF file.exists
    THEN IF \/ Attr(c, cls, "list").st = "none"
            \/ Attr(c, cls, "path") # ActivePath
         THEN [cache |-> [list |-> Val(ReadActiveFile(file.lines)), mtime |-> Val(mtime),
                          path |-> ActivePath],
               ret |-> ReadActiveFile(file.lines), reread |-> TRUE]
         ELSE [cache |-> c, ret |-> Attr(c, cls, "list").v, reread |-> FALSE]
    ELSE [cache |-> [c EXCEPT !.list = Val(<<>>), !.mtime = NoneAttr(0)],
          ret |-> <<>>, reread |-> FALSE]

\* Config.load_active_groups
load_active_groups(c, cls, file, mtime) ==
    IF file.exists
    THEN IF \/ Attr(c, cls, "list").st = "none"
            \/ Attr(c, cls, "path") # ActivePath
            \/ Attr(c, cls, "mtime") # Val(mtime)
         THEN [cache |-> [list |-> Val(ReadActiveFile(file.lines)), mtime |-> Val(mtime),
                          path |-> ActivePath],
               ret |-> ReadActiveFile(file.lines), reread |-> TRUE]
         ELSE [cache |-> c, ret |-> Attr(c, cls, "list").v, reread |-> FALSE]
    ELSE [cache |-> [c EXCEPT !.list = Val(<<>>), !.mtime = NoneAttr(0)],
          ret |-> <<>>, reread |-> FALSE]

\* Config.save_active_groups: the file is written at time now
save_active_groups(names, now) ==
    [cache |-> [list |-> Val(names), mtime |-> Val(now), path |-> ActivePath],
     file |-> [exists |-> TRUE, lines |-> WriteActiveFile(names)], mtime |-> now]

\* Config.activate_group without the check that the group exists
Config_activate_group_NoCheck(gs, c, cls, file, mtime, now, name) ==
    The({ IF ~InSeq(name, ld.ret)
          THEN The({ [ret |-> TRUE, cache |-> sv.cache, file |-> sv.file,
                      mtime |-> sv.mtime, wrote |-> TRUE]
                     : sv \in {save_active_groups(Append(ld.ret, name), now)} })
          ELSE [ret |-> TRUE, cache |-> ld.cache, file |-> file, mtime |-> mtime,
                wrote |-> FALSE]
          : ld \in {load_active_groups(c, cls, file, mtime)} })

\* Config.activate_group without the check that the group is not active yet
Config_activate_group_Append(gs, c, cls, file, mtime, now, name) ==
    IF get_group(gs, name) = 0
    THEN [ret |-> FALSE, cache |-> c, file |-> file, mtime |-> mtime, wrote |-> FALSE]
    ELSE The({ The({ [ret |-> TRUE, cache |-> sv.cache, file |-> sv.file,
                      mtime |-> sv.mtime, wrote |-> TRUE]
                     : sv \in {save_active_groups(Append(ld.ret, name), now)} })
               : ld \in {load_active_groups(c, cls, file, mtime)} })

\* Config.deactivate_group that writes the list and reports success whether
\* or not the group was active
Config_deactivate_group_Always(c, cls, file, mtime, now, name) ==
    The({ The({ [ret |-> TRUE, cache |-> sv.cache, file |-> sv.file, mtime |-> sv.mtime,
                 wrote |-> TRUE]
                : sv \in {save_active_groups(RemoveFirst(name, ld.ret), now)} })
          : ld \in {load_active_groups(c, cls, file, mtime)} })

\* Config.activate_group
Config_activate_group(gs, c, cls, file, mtime, now, name) ==
    IF get_group(gs, name) = 0
    THEN [ret |-> FALSE, cache |-> c, file |-> file, mtime |-> mtime, wrote |-> FALSE]
    ELSE The({ IF ~InSeq(name, ld.ret)
               THEN The({ [ret |-> TRUE, cache |-> sv.cache, file |-> sv.file,
                           mtime |-> sv.mtime, wrote |-> TRUE]
                          : sv \in {save_active_groups(Append(ld.ret, name), now)} })
               ELSE [ret |-> TRUE, cache |-> ld.cache, file |-> file, mtime |-> mtime,
                     wrote |-> FALSE]
               : ld \in {load_active_groups(c, cls, file, mtime)} })

\* Config.deactivate_group
Config_deactivate_group(c, cls, file, mtime, now, name) ==
    The({ IF InSeq(name, ld.ret)
          THEN The({ [ret |-> TRUE, cache |-> sv.cache, file |-> sv.file,
                      mtime |-> sv.mtime, wrote |-> TRUE]
                     : sv \in {save_active_groups(RemoveFirst(name, ld.ret), now)} })
          ELSE [ret |-> FALSE, cache |-> ld.cache, file |-> file, mtime |-> mtime,
                wrote |-> FALSE]
          : ld \in {load_active_groups(c, cls, file, mtime)} })

\* Config.is_group_active
is_group_active(c, cls, file, mtime, name) ==
    The({ [ret |-> InSeq(name, ld.ret), cache |-> ld.cache]
          : ld \in {load_active_groups(c, cls, file, mtime)} })

----------------------------------------------------------------------------
(* The state one call works on: the process (loaded, groups, cache: the     *)
(* manager's Config) and the files.  A ShtickManager method is an operator  *)
(* from this record to the record after the call and the call's result.     *)

St ==
    [loaded |-> loaded, groups |-> groups, cache |-> cache[1], cls |-> classCache,
     cfgFile |-> cfgFile, activeFile |-> activeFile, activeMtime |-> activeMtime,
     loader |-> loader, groupFiles |-> groupFiles, now |-> clock, tomliw |-> tomliw]

\* the process and the files, all but the backups directory, after a call
BecomesState(s) ==
    /\ loaded' = s.loaded
    /\ groups' = s.groups
    /\ cache' = [cache EXCEPT ![1] = s.cache]
    /\ cfgFile' = s.cfgFile
    /\ activeFile' = s.activeFile
    /\ activeMtime' = s.activeMtime
    /\ loader' = s.loader
    /\ groupFiles' = s.groupFiles
    /\ UNCHANGED <<classCache, clock, tomliw, stamped>>

Becomes(s) == BecomesState(s) /\ UNCHANGED backups

\* the activation state after a Config-level call with result r
WithActive(s, r) ==
    [s EXCEPT !.cache = r.cache, !.activeFile = r.file, !.activeMtime = r.mtime]

\* Config.save; Settings().behavior.backup_on_save is False by default, so
\* the file is written by save_config_securely alone
Config_save(s) ==
    [s EXCEPT !.cfgFile = [exists |-> TRUE,
                           sections |-> save_config_securely(s.groups, s.tomliw)]]

\* ShtickManager._load_config(create_if_missing=True): a new Config
_load_config(s) ==
    The({ IF r.raised = None
          THEN [raised |-> None,
                s |-> [s EXCEPT !.loaded = TRUE, !.cache = CacheAttrs0,
                                !.groups = r.groups]]
          ELSE IF r.raised = "FileNotFoundError"
          THEN [raised |-> None,
                s |-> Config_save([s EXCEPT !.loaded = TRUE, !.cache = CacheAttrs0,
                                            !.groups = <<>>])]
          ELSE [raised |-> r.raised, s |-> s]
          : r \in {ConfigLoad(<<>>, s.cfgFile)} })

\* ShtickManager._get_config
_get_config(s) == IF s.loaded THEN [raised |-> None, s |-> s] ELSE _load_config(s)

MissingGroupFile ==
    [exists |-> FALSE, aliases |-> EmptyMap, env_vars |-> EmptyMap, functions |-> EmptyMap]

GroupContent(g) ==
    [exists |-> TRUE, aliases |-> g.aliases, env_vars |-> g.env_vars,
     functions |-> g.functions]

\* Generator.generate_for_group for the groups at the indices idx, in order:
\* each group's file is rendered from the group's three maps
RECURSIVE generate_for_groups(_, _, _)
generate_for_groups(files, gs, idx) ==
    IF idx = <<>> THEN files
    ELSE generate_for_groups(
            [files EXCEPT ![gs[Head(idx)].name] = GroupContent(gs[Head(idx)])],
            gs, Tail(idx))

\* Generator.generate_loader: the loader sources the persistent group's file
\* and the file of every group load_active_groups returns
generate_loader(s) ==
    The({ [s EXCEPT !.cache = ld.cache,
                    !.loader = [exists |-> TRUE,
                                sources |-> {Persistent} \cup ToSet(ld.ret)]]
          : ld \in {load_active_groups(s.cache, s.cls, s.activeFile, s.activeMtime)} })

NonZero(i) == i # 0

\* ShtickManager._save_and_regenerate: an empty affected list is falsy, so
\* the else branch regenerates every group
_save_and_regenerate(s, affected) ==
    The({ generate_loader(
            [s1 EXCEPT !.groupFiles =
                generate_for_groups(
                    s1.groupFiles, s1.groups,
                    IF affected # <<>>
                    THEN SelectSeq([i \in 1..Len(affected) |->
                                       get_group(s1.groups, affected[i])], NonZero)
                    ELSE [i \in 1..Len(s1.groups) |-> i])])
          : s1 \in {Config_save(s)} })

\* check_conflicts that looks for the key under every item type
check_conflicts_AnyKind(gs, item_type, key) ==
    LET hit == SelectSeq([i \in 1..Len(gs) |-> i],
                         LAMBDA i : \E sec \in Sections : key \in DOMAIN gs[i][sec])
    IN  [p \in 1..Len(hit) |->
            <<gs[hit[p]].name,
              gs[hit[p]][CHOOSE sec \in Sections : key \in DOMAIN gs[hit[p]][sec]][key]>>]

\* ShtickManager.check_conflicts: (group name, value) of every group that
\* holds the key under the item type
check_conflicts(gs, item_type, key) ==
    LET hit == SelectSeq([i \in 1..Len(gs) |-> i],
                         LAMBDA i : key \in DOMAIN gs[i][type_map(item_type)])
    IN  [p \in 1..Len(hit) |-> <<gs[hit[p]].name, gs[hit[p]][type_map(item_type)][key]>>]

\* the affected_groups of _add_item and _remove_item: is_group_active is not
\* called for the persistent group ("or" short-circuits)
Affected(s, name) ==
    IF name = Persistent THEN [affected |-> <<name>>, s |-> s]
    ELSE The({ [affected |-> IF ia.ret THEN <<name>> ELSE <<>>,
                s |-> [s EXCEPT !.cache = ia.cache]]
               : ia \in {is_group_active(s.cache, s.cls, s.activeFile, s.activeMtime,
                                         name)} })

Result(ret, s, regen) == [ret |-> ret, s |-> s, regen |-> regen]

\* ShtickManager._add_item, called by add_alias, add_env, add_function and
\* their persistent forms with item_type in Kinds.  An exception anywhere
\* makes it return False.
_add_item(s, item_type, name, key, value) ==
    IF ~validate_key(key) \/ ~validate_value(value) THEN Result(FALSE, s, FALSE)
    ELSE The({ IF c.raised # None THEN Result(FALSE, c.s, FALSE)
               ELSE The({ IF ai.raised # None
                          THEN Result(FALSE, [c.s EXCEPT !.groups = ai.groups], FALSE)
                          ELSE The({ Result(TRUE, _save_and_regenerate(af.s, af.affected),
                                            TRUE)
                                     : af \in {Affected([c.s EXCEPT !.groups = ai.groups],
                                                        name)} })
                          : ai \in {add_item(c.s.groups, item_type, name, key, value)} })
               : c \in {_get_config(s)} })

\* ShtickManager._remove_item
_remove_item(s, item_type, name, key) ==
    The({ IF c.raised # None THEN Result(FALSE, c.s, FALSE)
          ELSE The({ IF rm.raised # None \/ ~rm.ret
                     THEN Result(FALSE, [c.s EXCEPT !.groups = rm.groups], FALSE)
                     ELSE The({ Result(TRUE, _save_and_regenerate(af.s, af.affected), TRUE)
                                : af \in {Affected([c.s EXCEPT !.groups = rm.groups],
                                                   name)} })
                     : rm \in {remove_item(c.s.groups, item_type, name, key)} })
          : c \in {_get_config(s)} })

\* ShtickManager.activate_group that saves and regenerates like an edit
Manager_activate_group_Regenerating(s, name) ==
    The({ IF c.raised # None THEN Result(FALSE, c.s, FALSE)
          ELSE The({ IF r.ret
                     THEN Result(TRUE, _save_and_regenerate(WithActive(c.s, r), <<>>), TRUE)
                     ELSE Result(FALSE, WithActive(c.s, r), FALSE)
                     : r \in {Config_activate_group(c.s.groups, c.s.cache, c.s.cls,
                                                    c.s.activeFile, c.s.activeMtime,
                                                    c.s.now, name)} })
          : c \in {_get_config(s)} })

\* ShtickManager.activate_group
Manager_activate_group(s, name) ==
    The({ IF c.raised # None THEN Result(FALSE, c.s, FALSE)
          ELSE The({ IF r.ret THEN Result(TRUE, generate_loader(WithActive(c.s, r)), TRUE)
                     ELSE Result(FALSE, WithActive(c.s, r), FALSE)
                     : r \in {Config_activate_group(c.s.groups, c.s.cache, c.s.cls,
                                                    c.s.activeFile, c.s.activeMtime,
                                                    c.s.now, name)} })
          : c \in {_get_config(s)} })

\* ShtickManager.deactivate_group that renders the loader before it changes
\* the active set
Manager_deactivate_group_LoaderFirst(s, name) ==
    The({ IF c.raised # None THEN Result(FALSE, c.s, FALSE)
          ELSE The({ The({ IF r.ret THEN Result(TRUE, WithActive(g, r), TRUE)
                           ELSE Result(FALSE, WithActive(c.s, r), FALSE)
                           : r \in {Config_deactivate_group(g.cache, g.cls, g.activeFile,
                                                            g.activeMtime, g.now, name)} })
                     : g \in {generate_loader(c.s)} })
          : c \in {_get_config(s)} })

\* ShtickManager.deactivate_group
Manager_deactivate_group(s, name) ==
    The({ IF c.raised # None THEN Result(FALSE, c.s, FALSE)
          ELSE The({ IF r.ret THEN Result(TRUE, generate_loader(WithActive(c.s, r)), TRUE)
                     ELSE Result(FALSE, WithActive(c.s, r), FALSE)
                     : r \in {Config_deactivate_group(c.s.cache, c.s.cls, c.s.activeFile,
                                                      c.s.activeMtime, c.s.now, name)} })
          : c \in {_get_config(s)} })

\* ShtickManager.get_groups: [] when the configuration cannot be loaded
get_groups(s) ==
    The({ IF c.raised # None THEN [ret |-> <<>>, s |-> c.s]
          ELSE [ret |-> [i \in 1..Len(c.s.groups) |-> c.s.groups[i].name], s |-> c.s]
          : c \in {_get_config(s)} })

\* ShtickManager.list_items(): of every item its group, type, key, value and
\* active flag: config.is_group_active(g.name) or g.name == "persistent"
list_items(s) ==
    The({ IF c.raised # None THEN [ret |-> {}, s |-> c.s]
          ELSE The({ [ret |-> UNION {{[group |-> c.s.groups[i].name, type |-> t, key |-> k,
                                       value |-> c.s.groups[i][type_map(t)][k],
                                       active |-> InSeq(c.s.groups[i].name, ld.ret)
                                                     \/ c.s.groups[i].name = Persistent] :
                                         k \in DOMAIN c.s.groups[i][type_map(t)]} :
                                      i \in 1..Len(c.s.groups), t \in Kinds},
                      s |-> IF \E i \in 1..Len(c.s.groups) : total_items(c.s.groups[i]) > 0
                            THEN [c.s EXCEPT !.cache = ld.cache] ELSE c.s]
                     : ld \in {load_active_groups(c.s.cache, c.s.cls, c.s.activeFile,
                                                  c.s.activeMtime)} })
          : c \in {_get_config(s)} })

----------------------------------------------------------------------------
(* commands.py: the ShtickCommands handlers.  Each runs in a process of its *)
(* own: a new ShtickManager, nothing loaded, and sys.exit at the end.       *)

\* str.strip()
RECURSIVE LStrip(_)
LStrip(s) == IF s # <<>> /\ Head(s) \in Whitespace THEN LStrip(Tail(s)) ELSE s

RECURSIVE RStrip(_)
RStrip(s) ==
    IF s # <<>> /\ s[Len(s)] \in Whitespace THEN RStrip(SubSeq(s, 1, Len(s) - 1)) ELSE s

Strip(s) == RStrip(LStrip(s))

\* security.validate_assignment without the two strip() calls
validate_assignment_NoStrip(assignment) ==
    IF IndexOf("eq", assignment) = 0 THEN [ok |-> FALSE, key |-> <<>>, value |-> <<>>]
    ELSE The({ IF kv.key = <<>> \/ kv.value = <<>>
               THEN [ok |-> FALSE, key |-> kv.key, value |-> kv.value]
               ELSE [ok |-> validate_key(kv.key) /\ validate_value(kv.value),
                     key |-> kv.key, value |-> kv.value]
               : kv \in {[key |-> SubSeq(assignment, 1, IndexOf("eq", assignment) - 1),
                          value |-> Drop(assignment, IndexOf("eq", assignment))]} })

\* security.validate_assignment: ok is FALSE where it raises ValueError
validate_assignment(assignment) ==
    IF IndexOf("eq", assignment) = 0 THEN [ok |-> FALSE, key |-> <<>>, value |-> <<>>]
    ELSE The({ IF kv.key = <<>> \/ kv.value = <<>>
               THEN [ok |-> FALSE, key |-> kv.key, value |-> kv.value]
               ELSE [ok |-> validate_key(kv.key) /\ validate_value(kv.value),
                     key |-> kv.key, value |-> kv.value]
               : kv \in {[key |-> Strip(SubSeq(assignment, 1,
                                                IndexOf("eq", assignment) - 1)),
                           value |-> Strip(Drop(assignment,
                                                IndexOf("eq", assignment)))]} })

\* the process a command starts in, and what is left of it after sys.exit
Fresh(s) == [s EXCEPT !.loaded = FALSE, !.groups = <<>>, !.cache = CacheAttrs0]

Exited(code, s, regen) ==
    [exit |-> code,
     s |-> [s EXCEPT !.loaded = FALSE, !.groups = <<>>, !.cache = CacheAttrs0],
     regen |-> regen]

\* ShtickCommands.activate_group
Cmd_activate_group(s, name) ==
    IF name = Persistent THEN Exited(1, s, FALSE)
    ELSE The({ IF m.ret THEN Exited(0, m.s, m.regen)
               ELSE Exited(1, get_groups(m.s).s, m.regen)
               : m \in {Manager_activate_group(Fresh(s), name)} })

\* ShtickCommands.deactivate_group
Cmd_deactivate_group(s, name) ==
    IF name = Persistent THEN Exited(1, s, FALSE)
    ELSE The({ Exited(0, m.s, m.regen)
               : m \in {Manager_deactivate_group(Fresh(s), name)} })

\* ShtickCommands.add_item
Cmd_add_item(s, item_type, name, assignment) ==
    The({ IF ~va.ok THEN Exited(1, s, FALSE)
          ELSE IF item_type \notin Kinds THEN Exited(1, s, FALSE)
          ELSE The({ IF m.ret THEN Exited(0, m.s, m.regen) ELSE Exited(1, m.s, m.regen)
                     : m \in {_add_item(Fresh(s), item_type, name, va.key, va.value)} })
          : va \in {validate_assignment(assignment)} })

\* ShtickCommands.group_create
Cmd_group_create(s, name) ==
    The({ IF g.ret # <<>> /\ InSeq(name, g.ret) THEN Exited(1, g.s, FALSE)
          ELSE The({ IF c.raised # None THEN Exited(1, c.s, FALSE)
                     ELSE Exited(0, Config_save([c.s EXCEPT
                                        !.groups = Append(c.s.groups, GroupData(name))]),
                                 FALSE)
                     : c \in {_get_config(g.s)} })
          : g \in {get_groups(Fresh(s))} })

----------------------------------------------------------------------------
(* The manager specification: calls of the ShtickManager API in a           *)
(* long-running process, and shtick commands, each a process of its own.    *)

\* the record of a call: ret is "True", "False" or None (nothing returned),
\* exit holds the status sys.exit was given (empty: the process lives on),
\* regen whether the call ran generate_loader, flags what list_items reported
NoExit == {}

Bool(b) == IF b THEN "True" ELSE "False"

Call(op, name, ret, exit, regen) ==
    [op |-> op, name |-> name, ret |-> ret, exit |-> exit, regen |-> regen, flags |-> {}]

NoCall == Call("init", None, None, NoExit, FALSE)

TotalItems(gs) ==
    LET n[i \in 0..Len(gs)] == IF i = 0 THEN 0 ELSE n[i-1] + total_items(gs[i])
    IN  n[Len(gs)]

Init ==
    /\ loaded = FALSE
    /\ groups = <<>>
    /\ cache = [i \in Inst |-> CacheAttrs0]
    /\ classCache = ClassAttrs0
    /\ cfgFile = MissingCfg
    /\ activeFile = MissingActive
    /\ activeMtime = 0
    /\ loader = MissingLoader
    /\ groupFiles = [n \in Names |-> MissingGroupFile]
    /\ clock = 0
    /\ tomliw \in BOOLEAN
    /\ stamped = TRUE
    /\ backups = NoBackups
    /\ last = NoCall

\* manager.add_alias / add_env / add_function (and the persistent forms)
ManagerAddItem(item_type, name, key, value) ==
    \E r \in {_add_item(St, item_type, name, key, value)} :
        /\ TotalItems(r.s.groups) <= MaxItems
        /\ Becomes(r.s)
        /\ last' = Call("add_item", name, Bool(r.ret), NoExit, r.regen)

\* manager.remove_alias / remove_env / remove_function
ManagerRemoveItem(item_type, name, key) ==
    \E r \in {_remove_item(St, item_type, name, key)} :
        /\ Becomes(r.s)
        /\ last' = Call("remove_item", name, Bool(r.ret), NoExit, r.regen)

ManagerActivate(name) ==
    \E r \in {Manager_activate_group(St, name)} :
        /\ Becomes(r.s)
        /\ last' = Call("activate_group", name, Bool(r.ret), NoExit, r.regen)

ManagerDeactivate(name) ==
    \E r \in {Manager_deactivate_group(St, name)} :
        /\ Becomes(r.s)
        /\ last' = Call("deactivate_group", name, Bool(r.ret), NoExit, r.regen)

\* manager._get_config().is_group_active(name)
ConfigIsGroupActive(name) ==
    \E c \in {_get_config(St)} :
    \E r \in {is_group_active(c.s.cache, c.s.cls, c.s.activeFile, c.s.activeMtime, name)} :
        /\ c.raised = None
        /\ Becomes([c.s EXCEPT !.cache = r.cache])
        /\ last' = Call("is_group_active", name, Bool(r.ret), NoExit, FALSE)

\* manager.list_items(): the active flags it reports, per group
ManagerListItems ==
    \E r \in {list_items(St)} :
        /\ Becomes(r.s)
        /\ last' = [Call("list_items", None, None, NoExit, FALSE) EXCEPT
                        !.flags = {<<it.group, it.active>> : it \in r.ret}]

\* shtick activate <name>
CmdActivate(name) ==
    \E r \in {Cmd_activate_group(St, name)} :
        /\ Becomes(r.s)
        /\ last' = Call("cmd_activate", name, None, {r.exit}, r.regen)

\* shtick deactivate <name>
CmdDeactivate(name) ==
    \E r \in {Cmd_deactivate_group(St, name)} :
        /\ Becomes(r.s)
        /\ last' = Call("cmd_deactivate", name, None, {r.exit}, r.regen)

\* shtick add <type> <name> <key>=<value>
CmdAdd(item_type, name, key, value) ==
    \E r \in {Cmd_add_item(St, item_type, name, key \o <<"eq">> \o value)} :
        /\ TomlValid(r.s.cfgFile.sections)
        /\ TotalItems(ParsedGroups(r.s.cfgFile.sections)) <= MaxItems
        /\ Becomes(r.s)
        /\ last' = Call("cmd_add", name, None, {r.exit}, r.regen)

\* shtick group create <name>
CmdGroupCreate(name) ==
    \E r \in {Cmd_group_create(St, name)} :
        /\ Becomes(r.s)
        /\ last' = Call("cmd_group_create", name, None, {r.exit}, FALSE)

Next ==
    \/ \E t \in Kinds, n \in Created, k \in Keys, v \in Values : ManagerAddItem(t, n, k, v)
    \/ \E t \in Kinds, n \in Names, k \in Keys : ManagerRemoveItem(t, n, k)
    \/ \E n \in Names : ManagerActivate(n)
    \/ \E n \in Names : ManagerDeactivate(n)
    \/ \E n \in Names : ConfigIsGroupActive(n)
    \/ ManagerListItems
    \/ \E n \in Names : CmdActivate(n)
    \/ \E n \in Names : CmdDeactivate(n)
    \/ \E t \in Kinds, n \in Created, k \in Keys, v \in Values : CmdAdd(t, n, k, v)
    \/ \E n \in Created : CmdGroupCreate(n)

Spec == Init /\ [][Next]_vars

----------------------------------------------------------------------------
(* Properties of the manager specification *)

\* the groups of the Configuration a ShtickManager call works on
CurrentGroups == _get_config(St).s.groups

\* the groups of the Configuration a shtick command works on
CommandGroups == _get_config(Fresh(St)).s.groups

\* the names the state file holds: the persisted ActiveGroupSet
ActiveGroupSet == ReadActiveFile(activeFile.lines)

ActivationOps == {"activate_group", "deactivate_group"}
ActivationCmds == {"cmd_activate", "cmd_deactivate"}

\* C1: Config.is_group_active("persistent") returns true in every reachable
\* state, whatever the state file holds and also when it is missing or empty
C1_PersistentAlwaysActive ==
    (last.op = "is_group_active" /\ last.name = Persistent) => last.ret = "True"

\* C2: activating or deactivating "persistent" is rejected at every entry
\* point (the manager returns false, the commands exit with status 1), and
\* "persistent" is never a name of the persisted ActiveGroupSet
C2_PersistentRejected ==
    /\ (last.op \in ActivationOps /\ last.name = Persistent) => last.ret = "False"
    /\ (last.op \in ActivationCmds /\ last.name = Persistent) => last.exit = {1}
    /\ ~InSeq(Persistent, ActiveGroupSet)

\* C3: activate(name) for a name that is no group of the current
\* Configuration returns false and leaves the state file, its modification
\* time and the cached list as they were; the activate command exits with 1
C3_ActivateUnknownGroup ==
    [][ /\ (last'.op = "activate_group" /\ get_group(CurrentGroups, last'.name) = 0)
            => /\ last'.ret = "False"
               /\ ~last'.regen
               /\ activeFile' = activeFile
               /\ activeMtime' = activeMtime
               /\ cache'[1] = cache[1]
        /\ (last'.op = "cmd_activate" /\ get_group(CommandGroups, last'.name) = 0)
            => /\ last'.exit = {1}
               /\ activeFile' = activeFile
               /\ activeMtime' = activeMtime ]_vars

\* C3 happens: an activation was refused for a name that is no group while
\* another group was active
C3_Witness ==
    /\ last.op = "activate_group"
    /\ last.ret = "False"
    /\ loaded
    /\ get_group(groups, last.name) = 0
    /\ ActiveGroupSet # <<>>

\* C4 as stated: deactivate(name) for a name that is not in the
\* ActiveGroupSet returns false, leaves the state file unchanged and does not
\* regenerate the loader; the deactivate command exits with status 0
C4_DeactivateInactive_AsStated ==
    [][ /\ (last'.op = "deactivate_group" /\ ~InSeq(last'.name, ActiveGroupSet))
            => /\ last'.ret = "False"
               /\ ~last'.regen
               /\ loader' = loader
               /\ activeFile' = activeFile
               /\ activeMtime' = activeMtime
        /\ (last'.op = "cmd_deactivate" /\ ~InSeq(last'.name, ActiveGroupSet))
            => /\ last'.exit = {0}
               /\ ~last'.regen
               /\ loader' = loader
               /\ activeFile' = activeFile
               /\ activeMtime' = activeMtime ]_vars

\* C4, amended: as stated, except that the deactivate command exits with
\* status 0 for every name but "persistent", for which it exits with status 1
C4_DeactivateInactive ==
    [][ /\ (last'.op = "deactivate_group" /\ ~InSeq(last'.name, ActiveGroupSet))
            => /\ last'.ret = "False"
               /\ ~last'.regen
               /\ loader' = loader
               /\ activeFile' = activeFile
               /\ activeMtime' = activeMtime
        /\ (last'.op = "cmd_deactivate" /\ ~InSeq(last'.name, ActiveGroupSet))
            => /\ last'.exit = (IF last'.name = Persistent THEN {1} ELSE {0})
               /\ ~last'.regen
               /\ loader' = loader
               /\ activeFile' = activeFile
               /\ activeMtime' = activeMtime ]_vars

\* C4 happens: the deactivate command found an existing group inactive,
\* while another group was active and a loader existed
C4_Witness ==
    /\ last.op = "cmd_deactivate"
    /\ last.name # Persistent
    /\ last.exit = {0}
    /\ ~last.regen
    /\ ~InSeq(last.name, ActiveGroupSet)
    /\ ActiveGroupSet # <<>>
    /\ loader.exists

\* C5: activate(name) of an existing group returns true; if the group is
\* active already the state file stays exactly as it was, otherwise the name
\* is appended and the group is active afterwards
C5_ActivateIdempotent ==
    [][ (last'.op = "activate_group" /\ get_group(CurrentGroups, last'.name) # 0)
            => /\ last'.ret = "True"
               /\ InSeq(last'.name, ActiveGroupSet)
                    => activeFile' = activeFile /\ activeMtime' = activeMtime
               /\ ~InSeq(last'.name, ActiveGroupSet)
                    => /\ activeFile'.exists
                       /\ activeFile'.lines = Append(ActiveGroupSet, last'.name)
               /\ is_group_active(cache'[1], classCache', activeFile', activeMtime',
                                   last'.name).ret ]_vars

\* C5 happens: an active group was activated again, with another group
\* active beside it
C5_Witness ==
    /\ last.op = "activate_group"
    /\ last.ret = "True"
    /\ Len(ActiveGroupSet) = 2
    /\ ActiveGroupSet[1] = last.name

\* C7 as stated: activate_group and deactivate_group leave the config file
\* and the in-memory groups unchanged
C7_ActivationKeepsConfig_AsStated ==
    [][ last'.op \in ActivationOps
            => /\ cfgFile' = cfgFile
               /\ groups' = CurrentGroups
               /\ groupFiles' = groupFiles ]_vars

\* C7, amended: activate_group and deactivate_group leave the config file,
\* the groups with their items and the group files unchanged, except that a
\* manager that has not loaded its configuration and finds no config file
\* creates an empty one
C7_ActivationKeepsConfig ==
    [][ last'.op \in ActivationOps
            => /\ (loaded \/ cfgFile.exists) => cfgFile' = cfgFile
               /\ ~(loaded \/ cfgFile.exists)
                    => cfgFile' = [exists |-> TRUE, sections |-> <<>>]
               /\ groups' = CurrentGroups
               /\ groupFiles' = groupFiles ]_vars

\* C7 happens: a group with an item was activated and the loader rewritten
C7_Witness ==
    /\ last.op = "activate_group"
    /\ last.ret = "True"
    /\ last.regen
    /\ last.name # Persistent
    /\ get_group(groups, last.name) # 0
    /\ total_items(groups[get_group(groups, last.name)]) > 0
    /\ cfgFile.exists

----------------------------------------------------------------------------
(* The cache specification: two Config objects of one configuration (two    *)
(* processes, or two managers of one process) work on the one state file    *)
(* while the filesystem clock advances.  Each object keeps the cache in     *)
(* attributes of its own: the code assigns them through self.               *)

ActiveLists == {<<>>, <<"work">>, <<"dev">>, <<"work", "dev">>, <<"dev", "work">>}

CacheCall(op, inst, names, reread) ==
    [op |-> op, inst |-> inst, names |-> names, reread |-> reread]

InitCache ==
    /\ loaded = TRUE
    /\ groups = <<GroupData("work"), GroupData("dev")>>
    /\ cache = [i \in Inst |-> CacheAttrs0]
    /\ classCache = ClassAttrs0
    /\ tomliw \in BOOLEAN
    /\ cfgFile = [exists |-> TRUE, sections |-> save_config_securely(groups, tomliw)]
    /\ activeFile = MissingActive
    /\ activeMtime = 0
    /\ loader = MissingLoader
    /\ groupFiles = [n \in Names |-> MissingGroupFile]
    /\ clock = 0
    /\ stamped = TRUE
    /\ backups = NoBackups
    /\ last = CacheCall("init", 0, <<>>, FALSE)

CacheFrame == UNCHANGED <<loaded, groups, classCache, cfgFile, loader, groupFiles, tomliw, backups>>

\* whether a write at the current time gives the file a modification time
\* it did not have before
Stamps(wrote) == wrote => (~activeFile.exists \/ clock # activeMtime)

\* time passes
Tick ==
    /\ clock < MaxClock
    /\ clock' = clock + 1
    /\ UNCHANGED <<cache, activeFile, activeMtime, stamped, last>>
    /\ CacheFrame

\* config.load_active_groups() on the object i
CfgLoadActive(i) ==
    \E ld \in {load_active_groups(cache[i], classCache, activeFile, activeMtime)} :
        /\ cache' = [cache EXCEPT ![i] = ld.cache]
        /\ last' = CacheCall("load", i, ld.ret, ld.reread)
        /\ UNCHANGED <<activeFile, activeMtime, clock, stamped>>
        /\ CacheFrame

\* config.save_active_groups(names) on the object i
CfgSaveActive(i, names) ==
    \E sv \in {save_active_groups(names, clock)} :
        /\ cache' = [cache EXCEPT ![i] = sv.cache]
        /\ activeFile' = sv.file
        /\ activeMtime' = sv.mtime
        /\ stamped' = (stamped /\ Stamps(TRUE))
        /\ last' = CacheCall("save", i, names, FALSE)
        /\ UNCHANGED clock
        /\ CacheFrame

\* config.activate_group(name) on the object i
CfgActivate(i, name) ==
    \E r \in {Config_activate_group(groups, cache[i], classCache, activeFile,
                                     activeMtime, clock, name)} :
        /\ cache' = [cache EXCEPT ![i] = r.cache]
        /\ activeFile' = r.file
        /\ activeMtime' = r.mtime
        /\ stamped' = (stamped /\ Stamps(r.wrote))
        /\ last' = CacheCall("activate", i, <<name>>, FALSE)
        /\ UNCHANGED clock
        /\ CacheFrame

\* config.deactivate_group(name) on the object i
CfgDeactivate(i, name) ==
    \E r \in {Config_deactivate_group(cache[i], classCache, activeFile, activeMtime,
                                       clock, name)} :
        /\ cache' = [cache EXCEPT ![i] = r.cache]
        /\ activeFile' = r.file
        /\ activeMtime' = r.mtime
        /\ stamped' = (stamped /\ Stamps(r.wrote))
        /\ last' = CacheCall("deactivate", i, <<name>>, FALSE)
        /\ UNCHANGED clock
        /\ CacheFrame

\* Config.clear_all_caches(): a classmethod, it assigns None to the class
\* attributes and reaches no attribute of an object
CfgClearAllCaches ==
    /\ classCache' = ClassAttrs0
    /\ last' = CacheCall("clear_all_caches", 0, <<>>, FALSE)
    /\ UNCHANGED <<loaded, groups, cache, cfgFile, activeFile, activeMtime, loader,
                   groupFiles, clock, tomliw, stamped, backups>>

NextCache ==
    \/ Tick
    \/ CfgClearAllCaches
    \/ \E i \in Inst : CfgLoadActive(i)
    \/ \E i \in Inst, names \in ActiveLists : CfgSaveActive(i, names)
    \/ \E i \in Inst, n \in Names : CfgActivate(i, n)
    \/ \E i \in Inst, n \in Names : CfgDeactivate(i, n)

SpecCache == InitCache /\ [][NextCache]_vars

\* C6: load_active_groups re-reads an existing state file exactly when the
\* object has no cached list, cached another path, or cached a modification
\* time other than the file's, and otherwise returns the cached list; the
\* load that follows the object's own save_active_groups(L) returns L without
\* re-reading; and while every write changed the file's modification time,
\* every load returns the names the file holds
C6_ActiveGroupsCache ==
    [][ (last'.op = "load" /\ clock' = clock) =>
          LET i == last'.inst
              stale == \/ cache[i].list.st # "val"
                       \/ cache[i].path # ActivePath
                       \/ cache[i].mtime # Val(activeMtime)
          IN  /\ activeFile.exists => (last'.reread <=> stale)
              /\ (activeFile.exists /\ ~stale) => last'.names = cache[i].list.v
              /\ last'.reread => last'.names = ActiveGroupSet
              /\ (last.op = "save" /\ last.inst = i)
                    => last'.names = last.names /\ ~last'.reread
              /\ stamped => last'.names = ActiveGroupSet ]_vars

\* C6 happens: an object that had cached one list re-read the file another
\* object wrote later, and returned the new names
C6_Witness ==
    /\ last.op = "load"
    /\ last.reread
    /\ last.inst = 1
    /\ last.names = <<"dev", "work">>
    /\ cache[2].list = Val(last.names)
    /\ cache[2].mtime = Val(activeMtime)
    /\ activeMtime > 0
    /\ stamped

----------------------------------------------------------------------------
(* The store specification: a Config object is built in memory, saved,      *)
(* loaded and used to activate groups; a new Config object starts with no   *)
(* groups.  The configuration is built before the file is first written.    *)

StoreValues == {<<"l", "s">>, <<"a", "cr", "b">>}

StoreCall(op, name, ret, raised) ==
    [op |-> op, name |-> name, ret |-> ret, raised |-> raised]

InitStore ==
    /\ loaded = FALSE
    /\ groups = <<>>
    /\ cache = [i \in Inst |-> CacheAttrs0]
    /\ classCache = ClassAttrs0
    /\ cfgFile = MissingCfg
    /\ activeFile = MissingActive
    /\ activeMtime = 0
    /\ loader = MissingLoader
    /\ groupFiles = [n \in Names |-> MissingGroupFile]
    /\ clock = 0
    /\ tomliw \in BOOLEAN
    /\ stamped = TRUE
    /\ backups = NoBackups
    /\ last = StoreCall("init", None, None, None)

StoreFrame == UNCHANGED <<classCache, loader, groupFiles, clock, tomliw, stamped, backups>>

\* Config(path): a new object
StoreNew ==
    /\ loaded' = FALSE
    /\ groups' = <<>>
    /\ cache' = [cache EXCEPT ![1] = CacheAttrs0]
    /\ last' = StoreCall("new", None, None, None)
    /\ UNCHANGED <<cfgFile, activeFile, activeMtime>>
    /\ StoreFrame

\* config.add_group(name)
StoreAddGroup(name) ==
    /\ ~cfgFile.exists
    /\ groups' = add_group(groups, name)
    /\ last' = StoreCall("add_group", name, None, None)
    /\ UNCHANGED <<loaded, cache, cfgFile, activeFile, activeMtime>>
    /\ StoreFrame

\* config.add_item(key, value, type, group)
StoreAddItem(item_type, name, key, value) ==
    \E r \in {add_item(groups, item_type, name, key, value)} :
        /\ ~cfgFile.exists
        /\ TotalItems(r.groups) <= MaxItems
        /\ groups' = r.groups
        /\ last' = StoreCall("add_item", name, None, r.raised)
        /\ UNCHANGED <<loaded, cache, cfgFile, activeFile, activeMtime>>
        /\ StoreFrame

\* config.save()
StoreSave ==
    /\ cfgFile' = Config_save(St).cfgFile
    /\ last' = StoreCall("save", None, None, None)
    /\ UNCHANGED <<loaded, groups, cache, activeFile, activeMtime>>
    /\ StoreFrame

\* config.load(); loaded tells that the groups come from the file
StoreLoad ==
    \E r \in {ConfigLoad(groups, cfgFile)} :
        /\ groups' = r.groups
        /\ loaded' = (IF r.raised = None THEN TRUE ELSE loaded)
        /\ last' = StoreCall("load", None, None, r.raised)
        /\ UNCHANGED <<cache, cfgFile, activeFile, activeMtime>>
        /\ StoreFrame

\* config.activate_group(name)
StoreActivate(name) ==
    \E r \in {Config_activate_group(groups, cache[1], classCache, activeFile,
                                     activeMtime, clock, name)} :
        /\ cache' = [cache EXCEPT ![1] = r.cache]
        /\ activeFile' = r.file
        /\ activeMtime' = r.mtime
        /\ last' = StoreCall("activate", name, Bool(r.ret), None)
        /\ UNCHANGED <<loaded, groups, cfgFile>>
        /\ StoreFrame

NextStore ==
    \/ StoreNew
    \/ \E n \in Created : StoreAddGroup(n)
    \/ \E t \in Kinds, n \in Created, k \in Keys, v \in StoreValues :
            StoreAddItem(t, n, k, v)
    \/ StoreSave
    \/ StoreLoad
    \/ \E n \in Names : StoreActivate(n)

SpecStore == InitStore /\ [][NextStore]_vars

\* a group, or a section of the file, with three empty maps
IsEmptyGroup(g) == g.aliases = EmptyMap /\ g.env_vars = EmptyMap /\ g.functions = EmptyMap

C10_FailedLoadKeepsGroups ==
    [][ last'.op = "load"
            => /\ ~cfgFile.exists
                    => last'.raised = "FileNotFoundError" /\ groups' = groups
               /\ (cfgFile.exists /\ ~TomlValid(cfgFile.sections))
                    => last'.raised = "TOMLDecodeError" /\ groups' = groups
               /\ last'.raised # None => groups' = groups /\ loaded' = loaded ]_vars

\* C10 happens: a load failed in the parser while the object held a group
\* with an item
C10_Witness ==
    /\ last.op = "load"
    /\ last.raised = "TOMLDecodeError"
    /\ TotalItems(groups) > 0
    /\ cfgFile.exists

----------------------------------------------------------------------------
(* The round-trip specification: a Config object holds one item, whose      *)
(* value is any text of Chars up to MaxLen characters, and is saved and     *)
(* loaded.                                                                  *)

\* a letter, and the characters the writers treat specially
Chars == {"n", "dq", "sq", "bs", "tab", "lf", "cr"}

RtCall(op, raised, before) == [op |-> op, raised |-> raised, before |-> before]

InitRoundTrip ==
    /\ loaded = FALSE
    /\ \E t \in Kinds, k \in Keys, v \in SeqsUpTo(Chars, MaxLen) :
          groups = add_item(<<>>, t, "work", k, v).groups
    /\ cache = [i \in Inst |-> CacheAttrs0]
    /\ classCache = ClassAttrs0
    /\ cfgFile = MissingCfg
    /\ activeFile = MissingActive
    /\ activeMtime = 0
    /\ loader = MissingLoader
    /\ groupFiles = [n \in Names |-> MissingGroupFile]
    /\ clock = 0
    /\ tomliw \in BOOLEAN
    /\ stamped = TRUE
    /\ backups = NoBackups
    /\ last = RtCall("init", None, <<>>)

RtFrame ==
    UNCHANGED <<cache, classCache, activeFile, activeMtime, loader, groupFiles, clock,
                tomliw, stamped, backups>>

\* config.save()
RtSave ==
    /\ cfgFile' = Config_save(St).cfgFile
    /\ last' = RtCall("save", None, groups)
    /\ UNCHANGED <<loaded, groups>>
    /\ RtFrame

\* config.load()
RtLoad ==
    \E r \in {ConfigLoad(groups, cfgFile)} :
        /\ groups' = r.groups
        /\ loaded' = (IF r.raised = None THEN TRUE ELSE loaded)
        /\ last' = RtCall("load", r.raised, groups)
        /\ UNCHANGED cfgFile
        /\ RtFrame

NextRoundTrip == RtSave \/ RtLoad

SpecRoundTrip == InitRoundTrip /\ [][NextRoundTrip]_vars

\* C9: save followed by load reproduces every item value exactly, under the
\* fallback writer as under tomli_w: the load of a saved file raises nothing
\* and leaves the groups the object held when it was saved
C9_ValuesRoundTrip ==
    (last.op = "load" /\ cfgFile.exists) => (last.raised = None /\ groups = last.before)

----------------------------------------------------------------------------
(* The save specification: Config.save step by step.  open(config_path,    *)
(* "w") empties the file, the writer then puts out a group header and the   *)
(* groups' items one by one, and leaving the with block closes the file.    *)
(* An exception raised while writing (a value that cannot be encoded, a     *)
(* full disk) or the end of the process leaves the file as far as it was    *)
(* written.                                                                 *)

\* sorted(keys): the keys in the order of their characters' code points
sorted(S) ==
    LET order == <<"lf", "sp", "-", "0", "1", "2", "3", "4", "5", "6", "7", "8", "9",
                   "eq", "A", "B", "C", "D", "E", "F", "G", "H", "I", "J", "K", "L", "M",
                   "N", "O", "P", "Q", "R", "S", "T", "U", "V", "W", "X", "Y", "Z", "_",
                   "a", "b", "c", "d", "e", "f", "g", "h", "i", "j", "k", "l", "m",
                   "n", "o", "p", "q", "r", "s", "t", "u", "v", "w", "x", "y", "z">>
        less(x, y) ==
            \E i \in 1..(Len(x) + 1) :
                /\ \A j \in 1..(i-1) : j <= Len(y) /\ x[j] = y[j]
                /\ i <= Len(y)
                /\ (i > Len(x) \/ IndexOf(x[i], order) < IndexOf(y[i], order))
    IN  CHOOSE q \in [1..Cardinality(S) -> S] :
            \A i, j \in 1..Cardinality(S) : i < j => less(q[i], q[j])

\* the writes of one save in their order: per group its header, then its
\* aliases, env_vars and functions, each map's keys sorted (a map of this
\* specification holds one key at most, so tomli_w's insertion order is the
\* same order)
RECURSIVE SaveWrites(_, _)
SaveWrites(target, i) ==
    IF i > Len(target) THEN <<>>
    ELSE <<[g |-> i, sec |-> None, key |-> <<>>]>>
         \o [p \in 1..Len(sorted(DOMAIN target[i].aliases)) |->
                [g |-> i, sec |-> "aliases", key |-> sorted(DOMAIN target[i].aliases)[p]]]
         \o [p \in 1..Len(sorted(DOMAIN target[i].env_vars)) |->
                [g |-> i, sec |-> "env_vars", key |-> sorted(DOMAIN target[i].env_vars)[p]]]
         \o [p \in 1..Len(sorted(DOMAIN target[i].functions)) |->
                [g |-> i, sec |-> "functions",
                 key |-> sorted(DOMAIN target[i].functions)[p]]]
         \o SaveWrites(target, i + 1)

\* what tomllib reads from the file after the first n writes of a save
Written(target, n) ==
    LET ev == SubSeq(SaveWrites(target, 1), 1, n)
        put(i, sec) == {ev[p].key : p \in {q \in 1..n : ev[q].g = i /\ ev[q].sec = sec}}
    IN  [i \in 1..Cardinality({p \in 1..n : ev[p].sec = None}) |->
            [name |-> target[i].name,
             aliases |-> [k \in put(i, "aliases") |-> target[i].aliases[k]],
             env_vars |-> [k \in put(i, "env_vars") |-> target[i].env_vars[k]],
             functions |-> [k \in put(i, "functions") |-> target[i].functions[k]]]]

\* the file is open for writing
Saving == last.op \in {"open", "write"}

SaveFrame ==
    UNCHANGED <<loaded, cache, classCache, activeFile, activeMtime, loader, groupFiles,
                clock, tomliw, stamped, backups>>

\* config.add_group(name), between saves
SvAddGroup(name) ==
    /\ ~Saving
    /\ groups' = add_group(groups, name)
    /\ UNCHANGED <<cfgFile, last>>
    /\ SaveFrame

\* config.add_item(item_type, name, key, value), between saves
SvAddItem(item_type, name, key, value) ==
    \E r \in {add_item(groups, item_type, name, key, value)} :
        /\ ~Saving
        /\ TotalItems(r.groups) <= MaxItems
        /\ groups' = r.groups
        /\ UNCHANGED <<cfgFile, last>>
        /\ SaveFrame

\* config.remove_item(item_type, name, key), between saves
SvRemoveItem(item_type, name, key) ==
    \E r \in {remove_item(groups, item_type, name, key)} :
        /\ ~Saving
        /\ r.ret
        /\ groups' = r.groups
        /\ UNCHANGED <<cfgFile, last>>
        /\ SaveFrame

\* save_config_securely: open(config_path, "w") (tomli_w: "wb").  The call
\* is recorded with the file before it, the sections it is to write and the
\* number of writes made
SaveOpen ==
    /\ ~Saving
    /\ cfgFile' = [exists |-> TRUE, sections |-> <<>>]
    /\ last' = [op |-> "open", before |-> cfgFile,
                 target |-> save_config_securely(groups, tomliw), written |-> 0]
    /\ UNCHANGED groups
    /\ SaveFrame

\* save_config_securely: the next f.write
SaveWrite ==
    /\ Saving
    /\ last.written < Len(SaveWrites(last.target, 1))
    /\ cfgFile' = [exists |-> TRUE, sections |-> Written(last.target, last.written + 1)]
    /\ last' = [last EXCEPT !.op = "write", !.written = last.written + 1]
    /\ UNCHANGED groups
    /\ SaveFrame

\* save_config_securely: the with block is left after the last write
SaveClose ==
    /\ Saving
    /\ last.written = Len(SaveWrites(last.target, 1))
    /\ last' = [last EXCEPT !.op = "saved"]
    /\ UNCHANGED <<groups, cfgFile>>
    /\ SaveFrame

\* save_config_securely: a write raises, or the process ends, before the
\* last write was made; the file stays as far as it was written
SaveFail ==
    /\ Saving
    /\ last.written < Len(SaveWrites(last.target, 1))
    /\ last' = [last EXCEPT !.op = "failed"]
    /\ UNCHANGED <<groups, cfgFile>>
    /\ SaveFrame

NextSave ==
    \/ \E n \in Created : SvAddGroup(n)
    \/ \E t \in Kinds, n \in Created, k \in Keys, v \in StoreValues : SvAddItem(t, n, k, v)
    \/ \E t \in Kinds, n \in Created, k \in Keys : SvRemoveItem(t, n, k)
    \/ SaveOpen
    \/ SaveWrite
    \/ SaveClose
    \/ SaveFail

\* a Config object as in the store specification
SpecSave == InitStore /\ [][NextSave]_vars

\* C11: at every point of a save, an interruption or a failed write
\* included, the config file holds the complete configuration it held before
\* the save or the complete configuration being saved
C11_SaveAtomic ==
    last.op \in {"open", "write", "saved", "failed"}
        => \/ cfgFile = last.before
           \/ cfgFile = [exists |-> TRUE, sections |-> last.target]

----------------------------------------------------------------------------
(* The input specification: one text, drawn at the start, is given as the   *)
(* key to validate_key, Config.add_item, ShtickManager.add_* and            *)
(* add_items_batch, and as the assignment to validate_assignment and to the *)
(* add command.                                                             *)

\* the longest text drawn character by character
MaxText == 4

\* a letter, a digit, the two signs a key may hold, a blank, = and a newline
InputChars == {"a", "1", "_", "-", "sp", "eq", "lf"}

\* the texts: every text of up to n characters, keys of MaxKeyLen - 1 to
\* MaxKeyLen + 1 letters, alone, followed by a newline and in an assignment
Texts(n) ==
    LET long == {[i \in 1..m |-> "a"] : m \in (MaxKeyLen - 1)..(MaxKeyLen + 1)}
    IN  SeqsUpTo(InputChars, n) \cup long \cup {Append(k, "lf") : k \in long}
            \cup {k \o <<"eq", "a">> : k \in long}

\* the for loop of ShtickManager.add_items_batch from the i-th item on; acc
\* holds the state, results["success"], results["failed"] and affected_groups
RECURSIVE add_items_loop(_, _, _)
add_items_loop(acc, items, i) ==
    IF i > Len(items) THEN acc
    ELSE add_items_loop(
            The({ IF ~validate_key(it.key) \/ ~validate_value(it.value)
                  THEN [acc EXCEPT !.failed = Append(@, it.key)]
                  ELSE The({ IF ai.raised # None
                             THEN [acc EXCEPT !.s.groups = ai.groups,
                                              !.failed = Append(@, it.key)]
                             ELSE The({ [s |-> af.s,
                                         success |-> Append(acc.success, it.key),
                                         failed |-> acc.failed,
                                         affected |-> acc.affected \cup ToSet(af.affected)]
                                        : af \in {Affected([acc.s EXCEPT !.groups = ai.groups],
                                                           it.group)} })
                             : ai \in {add_item(acc.s.groups, it.type, it.group, it.key,
                                                it.value)} })
                  : it \in {items[i]} }),
            items, i + 1)

\* ShtickManager.add_items_batch: _get_config is called outside the try, the
\* items are added one by one, and one save follows if any was added
add_items_batch(s, items) ==
    The({ IF c.raised # None
          THEN [raised |-> c.raised, s |-> c.s, success |-> <<>>, failed |-> <<>>,
                regen |-> FALSE]
          ELSE The({ [raised |-> None,
                      s |-> IF r.success # <<>>
                            THEN _save_and_regenerate(
                                    r.s, CHOOSE q \in [1..Cardinality(r.affected) -> r.affected] :
                                             \A x, y \in DOMAIN q : q[x] = q[y] => x = y)
                            ELSE r.s,
                      success |-> r.success, failed |-> r.failed,
                      regen |-> r.success # <<>>]
                     : r \in {add_items_loop([s |-> c.s, success |-> <<>>, failed |-> <<>>,
                                              affected |-> {}], items, 1)} })
          : c \in {_get_config(s)} })

\* the home directory holds no configuration, or one with an alias; the
\* record of a call keeps the text, the result (ok: no error was raised, True
\* was returned), the key and the value of the assignment, the exit status
InitInput(size) ==
    /\ loaded = FALSE
    /\ groups = <<>>
    /\ cache = [i \in Inst |-> CacheAttrs0]
    /\ classCache = ClassAttrs0
    /\ tomliw \in BOOLEAN
    /\ cfgFile \in {MissingCfg,
                    [exists |-> TRUE,
                     sections |-> save_config_securely(
                         add_item(<<>>, "alias", "work", <<"l", "l">>, <<"l", "s">>).groups,
                         tomliw)]}
    /\ activeFile = MissingActive
    /\ activeMtime = 0
    /\ loader = MissingLoader
    /\ groupFiles = [n \in Names |-> MissingGroupFile]
    /\ clock = 0
    /\ stamped = TRUE
    /\ backups = NoBackups
    /\ \E x \in Texts(size) :
          last = [op |-> "init", text |-> x, ok |-> FALSE, key |-> <<>>, value |-> <<>>,
                  exit |-> NoExit, items |-> 0]

\* security.validate_key(text)
InputValidateKey ==
    /\ last' = [last EXCEPT !.op = "validate_key", !.ok = validate_key(last.text)]
    /\ UNCHANGED <<loaded, groups, cache, classCache, cfgFile, activeFile, activeMtime,
                   loader, groupFiles, clock, tomliw, stamped, backups>>

\* security.validate_assignment(text)
InputValidateAssignment ==
    \E va \in {validate_assignment(last.text)} :
        /\ last' = [last EXCEPT !.op = "validate_assignment", !.ok = va.ok,
                                !.key = va.key, !.value = va.value]
        /\ UNCHANGED <<loaded, groups, cache, classCache, cfgFile, activeFile, activeMtime,
                       loader, groupFiles, clock, tomliw, stamped, backups>>

\* config.add_item(item_type, name, text, value) on the Config object
InputConfigAdd(item_type, name, value) ==
    \E r \in {add_item(groups, item_type, name, last.text, value)} :
        /\ groups' = r.groups
        /\ last' = [last EXCEPT !.op = "config_add_item", !.ok = (r.raised = None),
                                !.key = last.text, !.value = value]
        /\ UNCHANGED <<loaded, cache, classCache, cfgFile, activeFile, activeMtime,
                       loader, groupFiles, clock, tomliw, stamped, backups>>

\* manager.add_alias(text, value, name) and the like
InputManagerAdd(item_type, name, value) ==
    \E r \in {_add_item(St, item_type, name, last.text, value)} :
        /\ Becomes(r.s)
        /\ last' = [last EXCEPT !.op = "add_item", !.ok = r.ret, !.key = last.text,
                                !.value = value]

\* manager.add_items_batch(items): the item with the key text alone, or
\* followed by an item with the key ll
InputBatchAdd(item_type, name, value, n) ==
    \E r \in {add_items_batch(St, SubSeq(<<[type |-> item_type, group |-> name,
                                            key |-> last.text, value |-> value],
                                           [type |-> item_type, group |-> name,
                                            key |-> <<"l", "l">>, value |-> value]>>,
                                         1, n))} :
        /\ r.raised = None
        /\ Becomes(r.s)
        /\ last' = [last EXCEPT !.op = "add_items_batch", !.ok = InSeq(last.text, r.success),
                                !.key = last.text, !.value = value, !.items = n]

\* shtick add <type> <name> <text>
InputCmdAdd(item_type, name) ==
    \E r \in {Cmd_add_item(St, item_type, name, last.text)} :
        /\ Becomes(r.s)
        /\ last' = [last EXCEPT !.op = "cmd_add", !.ok = (r.exit = 0), !.exit = {r.exit}]

NextInput ==
    \/ InputValidateKey
    \/ InputValidateAssignment
    \/ \E v \in Values : InputConfigAdd("alias", "work", v)
    \/ \E v \in Values : InputManagerAdd("alias", "work", v)
    \/ \E v \in Values, n \in 1..2 : InputBatchAdd("alias", "work", v, n)
    \/ InputCmdAdd("alias", "work")

\* keys of up to MaxText - 1 characters at every entry point
SpecInput == InitInput(MaxText - 1) /\ [][NextInput]_vars

NextValidate ==
    \/ InputValidateKey
    \/ InputValidateAssignment
    \/ InputCmdAdd("alias", "work")

\* keys and assignments of up to MaxText characters at the validators and
\* the add command
SpecValidate == InitInput(MaxText) /\ [][NextValidate]_vars

----------------------------------------------------------------------------
(* Properties of the input specifications *)

\* the key rule: a letter or an underscore first, then letters, digits,
\* underscores and hyphens, MaxKeyLen characters at most
KeyRule(k) ==
    /\ Len(k) >= 1
    /\ Len(k) <= MaxKeyLen
    /\ k[1] \in Letters \cup {"_"}
    /\ \A i \in 2..Len(k) : k[i] \in Letters \cup Digits \cup {"_", "-"}

\* raw without the whitespace at its two ends (as a one-element set)
Trimmed(raw) ==
    {SubSeq(raw, ij[1] + 1, Len(raw) - ij[2]) :
        ij \in {x \in (0..Len(raw)) \X (0..Len(raw)) :
                  /\ x[1] + x[2] <= Len(raw)
                  /\ \A q \in 1..x[1] : raw[q] \in Whitespace
                  /\ \A q \in (Len(raw) - x[2] + 1)..Len(raw) : raw[q] \in Whitespace
                  /\ \/ x[1] + x[2] = Len(raw)
                     \/ (raw[x[1] + 1] \notin Whitespace
                            /\ raw[Len(raw) - x[2]] \notin Whitespace)}}

\* the key and the value of an assignment: the trimmed text before, and
\* the trimmed text after, the first "=" (empty for a text without "=")
AssignmentParts(t) ==
    UNION {[key : Trimmed(SubSeq(t, 1, p - 1)), value : Trimmed(SubSeq(t, p + 1, Len(t)))] :
              p \in {x \in 1..Len(t) : t[x] = "eq" /\ \A q \in 1..(x-1) : t[q] # "eq"}}

\* C12: a key that violates the key rule is rejected at every entry point:
\* Config.add_item, the ShtickManager add methods and add_items_batch report
\* an error and change neither the groups in memory nor the config file, and
\* the add command exits with status 1 and writes nothing
C12_InvalidKeyRejected ==
    [][ /\ (/\ last'.op \in {"config_add_item", "add_item", "add_items_batch"}
            /\ last'.items <= 1
            /\ ~KeyRule(last.text))
            => (~last'.ok /\ groups' = groups /\ cfgFile' = cfgFile)
        /\ (last'.op = "cmd_add" /\ \E kv \in AssignmentParts(last.text) : ~KeyRule(kv.key))
            => (last'.exit = {1} /\ cfgFile' = cfgFile /\ groupFiles' = groupFiles
                    /\ loader' = loader) ]_vars

\* C13: validate_key accepts a key exactly when it follows the key rule
C13_KeyRule ==
    last.op = "validate_key" => (last.ok <=> KeyRule(last.text))

\* C14: validate_assignment, and with it the add command, rejects every
\* assignment without "=", with an empty trimmed key or with an empty trimmed
\* value, and the rejected command exits with status 1 and changes no file;
\* an accepted assignment has the trimmed text before the first "=" as its
\* key and the trimmed text after it as its value, and that is the item the
\* add command stores
C14_AssignmentParsing ==
    [][ LET parts == AssignmentParts(last.text)
            rejected == parts = {} \/ \E kv \in parts : kv.key = <<>> \/ kv.value = <<>>
        IN  /\ last'.op = "validate_assignment"
                => /\ rejected => ~last'.ok
                   /\ last'.ok => [key |-> last'.key, value |-> last'.value] \in parts
            /\ last'.op = "cmd_add"
                => /\ rejected
                        => /\ last'.exit = {1}
                           /\ cfgFile' = cfgFile
                           /\ groupFiles' = groupFiles
                           /\ loader' = loader
                           /\ activeFile' = activeFile
                   /\ last'.exit = {0}
                        => /\ TomlValid(cfgFile'.sections)
                           /\ \E kv \in parts :
                                \E i \in 1..Len(cfgFile'.sections) :
                                    /\ cfgFile'.sections[i].name = "work"
                                    /\ kv.key \in DOMAIN
                                          ParsedGroups(cfgFile'.sections)[i].aliases
                                    /\ ParsedGroups(cfgFile'.sections)[i].aliases[kv.key]
                                          = kv.value ]_vars

\* C14 happens: the add command stored an assignment whose value was trimmed
\* and holds a "=" of its own
C14_Witness ==
    /\ last.op = "cmd_add"
    /\ last.exit = {0}
    /\ \E kv \in AssignmentParts(last.text) :
          /\ InSeq("eq", kv.value)
          /\ Len(kv.key) + Len(kv.value) + 1 < Len(last.text)

----------------------------------------------------------------------------
(* The edit specification: groups and items are added to and removed from   *)
(* a Configuration, through the Config object and through a ShtickManager,  *)
(* and groups are created by the group create command.                      *)

EditKeys == Keys \cup {<<"l", "a">>}

\* the record of a call; conflicts is what check_conflicts returned
EditCall(op, item_type, name, key, value, ret, exit, regen, conflicts) ==
    [op |-> op, type |-> item_type, name |-> name, key |-> key, value |-> value,
     ret |-> ret, exit |-> exit, regen |-> regen, conflicts |-> conflicts]

\* ShtickManager._add_item with check_conflicts left at its default, True:
\* the conflicts its warning names, none when the call fails before the scan
add_item_conflicts(s, item_type, key, value) ==
    IF ~validate_key(key) \/ ~validate_value(value) THEN <<>>
    ELSE The({ IF c.raised # None THEN <<>>
               ELSE check_conflicts(c.s.groups, item_type, key)
               : c \in {_get_config(s)} })

\* an empty home directory
InitEdit ==
    /\ loaded = FALSE
    /\ groups = <<>>
    /\ cache = [i \in Inst |-> CacheAttrs0]
    /\ classCache = ClassAttrs0
    /\ cfgFile = MissingCfg
    /\ activeFile = MissingActive
    /\ activeMtime = 0
    /\ loader = MissingLoader
    /\ groupFiles = [n \in Names |-> MissingGroupFile]
    /\ clock = 0
    /\ tomliw \in BOOLEAN
    /\ stamped = TRUE
    /\ backups = NoBackups
    /\ last = EditCall("init", None, None, <<>>, <<>>, None, NoExit, FALSE, <<>>)

EditFrame ==
    UNCHANGED <<loaded, cache, classCache, cfgFile, activeFile, activeMtime, loader,
                groupFiles, clock, tomliw, stamped, backups>>

\* config.add_group(name), on a Config object of a configuration that was
\* never saved (as are the other two calls on the Config object)
EdAddGroup(name) ==
    /\ ~cfgFile.exists
    /\ groups' = add_group(groups, name)
    /\ last' = EditCall("add_group", None, name, <<>>, <<>>, None, NoExit, FALSE, <<>>)
    /\ EditFrame

\* config.add_item(item_type, name, key, value)
EdConfigAdd(item_type, name, key, value) ==
    \E r \in {add_item(groups, item_type, name, key, value)} :
        /\ ~cfgFile.exists
        /\ TotalItems(r.groups) <= MaxItems + 1
        /\ groups' = r.groups
        /\ last' = EditCall("config_add_item", item_type, name, key, value, r.raised,
                            NoExit, FALSE, <<>>)
        /\ EditFrame

\* config.remove_item(item_type, name, key)
EdConfigRemove(item_type, name, key) ==
    \E r \in {remove_item(groups, item_type, name, key)} :
        /\ ~cfgFile.exists
        /\ groups' = r.groups
        /\ last' = EditCall("config_remove_item", item_type, name, key, <<>>,
                            Bool(r.ret),
                            NoExit, FALSE, <<>>)
        /\ EditFrame

\* manager.add_alias / add_env (and the persistent forms)
EdManagerAdd(item_type, name, key, value) ==
    \E r \in {_add_item(St, item_type, name, key, value)} :
        /\ TotalItems(r.s.groups) <= MaxItems + 1
        /\ Becomes(r.s)
        /\ last' = EditCall("add_item", item_type, name, key, value, Bool(r.ret), NoExit,
                            r.regen, add_item_conflicts(St, item_type, key, value))

\* manager.remove_alias / remove_env
EdManagerRemove(item_type, name, key) ==
    \E r \in {_remove_item(St, item_type, name, key)} :
        /\ Becomes(r.s)
        /\ last' = EditCall("remove_item", item_type, name, key, <<>>, Bool(r.ret), NoExit,
                            r.regen, <<>>)

\* manager.check_conflicts(item_type, key, name)
EdCheckConflicts(item_type, key, name) ==
    \E c \in {_get_config(St)} :
        /\ c.raised = None
        /\ Becomes(c.s)
        /\ last' = EditCall("check_conflicts", item_type, name, key, <<>>, None, NoExit,
                            FALSE, check_conflicts(c.s.groups, item_type, key))

\* shtick group create <name>
EdCmdGroupCreate(name) ==
    \E r \in {Cmd_group_create(St, name)} :
        /\ Becomes(r.s)
        /\ last' = EditCall("cmd_group_create", None, name, <<>>, <<>>, None, {r.exit},
                            FALSE, <<>>)

NextEdit(kinds, keys, values) ==
    \/ \E n \in Created : EdAddGroup(n)
    \/ \E t \in kinds, n \in Created, k \in keys, v \in values : EdConfigAdd(t, n, k, v)
    \/ \E t \in kinds, n \in Names, k \in keys : EdConfigRemove(t, n, k)
    \/ \E t \in kinds, n \in Created, k \in keys, v \in values : EdManagerAdd(t, n, k, v)
    \/ \E t \in kinds, n \in Names, k \in keys : EdManagerRemove(t, n, k)
    \/ \E t \in kinds, k \in keys : EdCheckConflicts(t, k, "work")
    \/ \E n \in Created : EdCmdGroupCreate(n)

\* two kinds, two keys, one value: what an edit changes and what it leaves
\* alone
SpecEdit == InitEdit /\ [][NextEdit({"alias", "env"}, EditKeys, Values)]_vars

\* three kinds, one key, two values: the definitions of one key in several
\* groups
SpecConflict == InitEdit /\ [][NextEdit(Kinds, Keys, StoreValues)]_vars

----------------------------------------------------------------------------
(* Properties of the edit specifications *)

\* the groups after are the groups before without the entry key of the
\* section attr of the group at index i, everything else as it was
RemovedFrom(after, before, i, attr, key) ==
    /\ Len(after) = Len(before)
    /\ \A j \in 1..Len(before) :
          /\ after[j].name = before[j].name
          /\ \A sec \in Sections :
                IF j = i /\ sec = attr
                THEN /\ DOMAIN after[j][sec] = DOMAIN before[j][sec] \ {key}
                     /\ \A k \in DOMAIN after[j][sec] : after[j][sec][k] = before[j][sec][k]
                ELSE after[j][sec] = before[j][sec]

RemoveOps == {"config_remove_item", "remove_item"}

\* C15 as stated: remove_item returns true exactly when the group exists and
\* holds the key under the kind; then only that entry is removed; when it
\* returns false nothing is mutated and the manager saves and regenerates
\* nothing
C15_RemoveItem_AsStated ==
    [][ last'.op \in RemoveOps
            => LET gs == IF last'.op = "remove_item" THEN CurrentGroups ELSE groups
                   i == get_group(gs, last'.name)
                   attr == type_map(last'.type)
                   found == i # 0 /\ last'.key \in DOMAIN gs[i][attr]
               IN  /\ last'.ret = Bool(found)
                   /\ found => RemovedFrom(groups', gs, i, attr, last'.key)
                   /\ ~found => /\ groups' = gs
                                /\ cfgFile' = cfgFile
                                /\ groupFiles' = groupFiles
                                /\ loader' = loader
                                /\ ~last'.regen ]_vars

\* C15, amended: remove_item returns true exactly when the group exists and
\* holds the key under the kind; then only that entry is removed and every
\* other kind, key and group is unchanged; when it returns false the groups
\* are unchanged and nothing is regenerated, and the config file is left as
\* it was, except that a manager that has not loaded its configuration and
\* finds no config file creates an empty one
C15_RemoveItem ==
    [][ last'.op \in RemoveOps
            => LET gs == IF last'.op = "remove_item" THEN CurrentGroups ELSE groups
                   i == get_group(gs, last'.name)
                   attr == type_map(last'.type)
                   found == i # 0 /\ last'.key \in DOMAIN gs[i][attr]
               IN  /\ last'.ret = Bool(found)
                   /\ found => RemovedFrom(groups', gs, i, attr, last'.key)
                   /\ ~found => /\ groups' = gs
                                /\ IF last'.op = "remove_item" /\ ~loaded /\ ~cfgFile.exists
                                   THEN cfgFile' = [exists |-> TRUE, sections |-> <<>>]
                                   ELSE cfgFile' = cfgFile
                                /\ groupFiles' = groupFiles
                                /\ loader' = loader
                                /\ ~last'.regen ]_vars

\* C15 happens: the manager removed an entry of a group that holds the same
\* key under another kind
C15_Witness ==
    /\ last.op = "remove_item"
    /\ last.ret = "True"
    /\ get_group(groups, last.name) # 0
    /\ \E sec \in Sections \ {type_map(last.type)} :
          last.key \in DOMAIN groups[get_group(groups, last.name)][sec]

\* the pairs are one (group name, value) pair for each group of gs that
\* holds the key in the section attr, and nothing else
ScanOf(pairs, gs, attr, key) ==
    /\ \A i \in 1..Len(gs) :
          key \in DOMAIN gs[i][attr]
              => /\ Cardinality({p \in 1..Len(pairs) : pairs[p][1] = gs[i].name}) = 1
                 /\ \E p \in 1..Len(pairs) : pairs[p] = <<gs[i].name, gs[i][attr][key]>>
    /\ \A p \in 1..Len(pairs) :
          \E i \in 1..Len(gs) : gs[i].name = pairs[p][1] /\ key \in DOMAIN gs[i][attr]

\* C16: check_conflicts returns one (group name, value) pair for each group
\* that defines the key under the kind and nothing for other kinds; an add
\* whose scan found conflicts still stores the item in the target group and
\* returns True
C16_ConflictScan ==
    [][ /\ last'.op \in {"check_conflicts", "add_item"}
            => ScanOf(last'.conflicts, CurrentGroups, type_map(last'.type), last'.key)
        /\ last'.op = "add_item" /\ last'.conflicts # <<>>
            => /\ last'.ret = "True"
               /\ get_group(groups', last'.name) # 0
               /\ last'.key \in DOMAIN groups'[get_group(groups', last'.name)]
                                              [type_map(last'.type)]
               /\ groups'[get_group(groups', last'.name)][type_map(last'.type)][last'.key]
                     = last'.value ]_vars

\* C16 happens: an add found the key defined in another group with another
\* value, and went through
C16_Witness ==
    /\ last.op = "add_item"
    /\ last.ret = "True"
    /\ \E p \in 1..Len(last.conflicts) :
          last.conflicts[p][1] # last.name /\ last.conflicts[p][2] # last.value

UniqueNames(gs) == \A i, j \in 1..Len(gs) : gs[i].name = gs[j].name => i = j

\* the groups after are the groups before, with one empty group of that
\* name appended when there was none
WithGroup(after, before, name) ==
    IF name \in GroupNames(before) THEN after = before
    ELSE after = Append(before, [name |-> name, aliases |-> EmptyMap,
                                 env_vars |-> EmptyMap, functions |-> EmptyMap])

\* C17: group names are unique in the Configuration, in memory and in the
\* config file, in every reachable state; add_group leaves the groups as
\* they are when the name is taken and appends one empty group otherwise;
\* add_item creates the group only if absent; the group create command exits
\* with status 1 when the name is taken, and writes nothing
C17_GroupNamesUnique ==
    [][ /\ UniqueNames(groups')
        /\ UniqueNames(cfgFile'.sections)
        /\ last'.op = "add_group" => WithGroup(groups', groups, last'.name)
        /\ last'.op = "config_add_item"
            => /\ GroupNames(groups') = GroupNames(groups) \cup {last'.name}
               /\ Len(groups') = Cardinality(GroupNames(groups'))
        /\ last'.op = "add_item" /\ last'.ret = "True"
            => /\ GroupNames(groups') = GroupNames(CurrentGroups) \cup {last'.name}
               /\ Len(groups') = Cardinality(GroupNames(groups'))
        /\ last'.op = "cmd_group_create"
            => IF last'.name \in GroupNames(CommandGroups)
               THEN last'.exit = {1} /\ cfgFile' = cfgFile
               ELSE /\ last'.exit = {0}
                    /\ cfgFile'.exists
                    /\ WithGroup(ParsedGroups(cfgFile'.sections), CommandGroups,
                                 last'.name) ]_vars

\* C17 happens: the group create command refused a name that a group with
\* items already has
C17_Witness ==
    /\ last.op = "cmd_group_create"
    /\ last.exit = {1}
    /\ cfgFile.exists
    /\ \E i \in 1..Len(cfgFile.sections) :
          /\ cfgFile.sections[i].name = last.name
          /\ \E sec \in Sections : DOMAIN cfgFile.sections[i][sec] # {}

----------------------------------------------------------------------------
(* shells.py: quoting and the dialect registry.  A text is a sequence whose *)
(* elements are characters ("sq" the single quote, "dq" the double quote,   *)
(* "bt" the backtick, "dl" the dollar sign, "bs" the backslash, "sc" the    *)
(* semicolon, "lp" "rp" parentheses, "lb" "rb" braces, "lbk" "rbk"          *)
(* brackets, "hash", "eq", "sp", "lf") and, in the fixed parts of a format, *)
(* whole words of letters, digits and "_" ":" "-".                          *)

\* shlex: _find_unsafe = re.compile(r'[^\w@%+=:,./-]', re.ASCII)
SafeChars == Letters \cup Digits \cup {"_", "@", "%", "+", "eq", ":", ",", ".", "/", "-"}

\* a quote that puts the string between single quotes as it is
shlex_quote_NoReplace(str) ==
    IF str = <<>> THEN <<"sq", "sq">>
    ELSE IF \A i \in 1..Len(str) : str[i] \in SafeChars THEN str
    ELSE <<"sq">> \o str \o <<"sq">>

\* shlex.quote: '' for the empty string, the string itself when every
\* character is safe, otherwise the string between single quotes with each
\* single quote replaced by '"'"'
shlex_quote(str) ==
    IF str = <<>> THEN <<"sq", "sq">>
    ELSE IF \A i \in 1..Len(str) : str[i] \in SafeChars THEN str
    ELSE <<"sq">> \o ReplaceChar(str, "sq", <<"sq", "dq", "sq", "dq", "sq">>) \o <<"sq">>

\* a body escaping that also puts a backslash before every double quote
escape_function_body_DoubleQuotes(body) ==
    ReplaceChar(ReplaceChar(body, "dq", <<"bs", "dq">>), "sq",
                <<"sq", "dq", "sq", "dq", "sq">>)

\* escape_function_body: body.replace("'", "'\"'\"'")
escape_function_body(body) == ReplaceChar(body, "sq", <<"sq", "dq", "sq", "dq", "sq">>)

\* the registry: of each ShellSyntax its name and the f-strings of its three
\* lambdas, the replacement fields kept as they are written
SHELLS ==
    [ bash |->
        [name |-> "bash",
         alias_fmt |-> <<"alias", "sp", "{shlex.quote(k)}", "eq", "{shlex.quote(v)}", "lf">>,
         env_fmt |-> <<"export", "sp", "{shlex.quote(k)}", "eq", "{shlex.quote(v)}", "lf">>,
         function_fmt |-> <<"{shlex.quote(k)}", "lp", "rp", "sp", "lb", "lf", "sp", "sp", "sp",
                           "sp", "{escape_function_body(v)}", "lf", "rb", "lf">>],
      zsh |->
        [name |-> "zsh",
         alias_fmt |-> <<"alias", "sp", "{shlex.quote(k)}", "eq", "{shlex.quote(v)}", "lf">>,
         env_fmt |-> <<"export", "sp", "{shlex.quote(k)}", "eq", "{shlex.quote(v)}", "lf">>,
         function_fmt |-> <<"{shlex.quote(k)}", "lp", "rp", "sp", "lb", "lf", "sp", "sp", "sp",
                           "sp", "{escape_function_body(v)}", "lf", "rb", "lf">>],
      fish |->
        [name |-> "fish",
         alias_fmt |-> <<"alias", "sp", "{shlex.quote(k)}", "sp", "{shlex.quote(v)}", "lf">>,
         env_fmt |-> <<"set", "sp", "-x", "sp", "{shlex.quote(k)}", "sp", "{shlex.quote(v)}",
                      "lf">>,
         function_fmt |-> <<"function", "sp", "{shlex.quote(k)}", "lf", "sp", "sp", "sp", "sp",
                           "{escape_function_body(v)}", "lf", "end", "lf">>],
      ksh |->
        [name |-> "ksh",
         alias_fmt |-> <<"alias", "sp", "{shlex.quote(k)}", "eq", "{shlex.quote(v)}", "lf">>,
         env_fmt |-> <<"export", "sp", "{shlex.quote(k)}", "eq", "{shlex.quote(v)}", "lf">>,
         function_fmt |-> <<"{shlex.quote(k)}", "lp", "rp", "sp", "lb", "lf", "sp", "sp", "sp",
                           "sp", "{escape_function_body(v)}", "lf", "rb", "lf">>],
      mksh |->
        [name |-> "mksh",
         alias_fmt |-> <<"alias", "sp", "{shlex.quote(k)}", "eq", "{shlex.quote(v)}", "lf">>,
         env_fmt |-> <<"export", "sp", "{shlex.quote(k)}", "eq", "{shlex.quote(v)}", "lf">>,
         function_fmt |-> <<"{shlex.quote(k)}", "lp", "rp", "sp", "lb", "lf", "sp", "sp", "sp",
                           "sp", "{escape_function_body(v)}", "lf", "rb", "lf">>],
      yash |->
        [name |-> "yash",
         alias_fmt |-> <<"alias", "sp", "{shlex.quote(k)}", "eq", "{shlex.quote(v)}", "lf">>,
         env_fmt |-> <<"export", "sp", "{shlex.quote(k)}", "eq", "{shlex.quote(v)}", "lf">>,
         function_fmt |-> <<"{shlex.quote(k)}", "lp", "rp", "sp", "lb", "lf", "sp", "sp", "sp",
                           "sp", "{escape_function_body(v)}", "lf", "rb", "lf">>],
      dash |->
        [name |-> "dash",
         alias_fmt |-> <<"alias", "sp", "{shlex.quote(k)}", "eq", "{shlex.quote(v)}", "lf">>,
         env_fmt |-> <<"export", "sp", "{shlex.quote(k)}", "eq", "{shlex.quote(v)}", "lf">>,
         function_fmt |-> <<"{shlex.quote(k)}", "lp", "rp", "sp", "lb", "lf", "sp", "sp", "sp",
                           "sp", "{escape_function_body(v)}", "lf", "rb", "lf">>],
      csh |->
        [name |-> "csh",
         alias_fmt |-> <<"alias", "sp", "{shlex.quote(k)}", "sp", "{shlex.quote(v)}", "lf">>,
         env_fmt |-> <<"setenv", "sp", "{shlex.quote(k)}", "sp", "{shlex.quote(v)}", "lf">>,
         function_fmt |-> <<"hash", "sp", "csh", "sp", "doesn", "sq", "t", "sp", "support", "sp",
                           "functions", "sp", "-", "sp", "skipping", "sp", "{shlex.quote(k)}",
                           "lf">>],
      tcsh |->
        [name |-> "tcsh",
         alias_fmt |-> <<"alias", "sp", "{shlex.quote(k)}", "sp", "{shlex.quote(v)}", "lf">>,
         env_fmt |-> <<"setenv", "sp", "{shlex.quote(k)}", "sp", "{shlex.quote(v)}", "lf">>,
         function_fmt |-> <<"hash", "sp", "tcsh", "sp", "doesn", "sq", "t", "sp", "support", "sp",
                           "functions", "sp", "-", "sp", "skipping", "sp", "{shlex.quote(k)}",
                           "lf">>],
      xonsh |->
        [name |-> "xonsh",
         alias_fmt |-> <<"aliases", "lbk", "{shlex.quote(k)}", "rbk", "sp", "eq", "sp",
                        "{shlex.quote(v)}", "lf">>,
         env_fmt |-> <<"dl", "lb", "{shlex.quote(k)}", "rb", "sp", "eq", "sp",
                      "{shlex.quote(v)}", "lf">>,
         function_fmt |-> <<"def", "sp", "{shlex.quote(k)}", "lp", "rp", ":", "lf", "sp", "sp",
                           "sp", "sp", "return", "sp", "{shlex.quote(v)}", "lf">>],
      elvish |->
        [name |-> "elvish",
         alias_fmt |-> <<"fn", "sp", "{shlex.quote(k)}", "sp", "lb", "sp",
                        "{escape_function_body(v)}", "sp", "rb", "lf">>,
         env_fmt |-> <<"E:", "{shlex.quote(k)}", "sp", "eq", "sp", "{shlex.quote(v)}", "lf">>,
         function_fmt |-> <<"fn", "sp", "{shlex.quote(k)}", "sp", "lb", "sp",
                           "{escape_function_body(v)}", "sp", "rb", "lf">>],
      rc |->
        [name |-> "rc",
         alias_fmt |-> <<"fn", "sp", "{shlex.quote(k)}", "sp", "lb", "sp",
                        "{escape_function_body(v)}", "sp", "rb", "lf">>,
         env_fmt |-> <<"{shlex.quote(k)}", "eq", "{shlex.quote(v)}", "lf">>,
         function_fmt |-> <<"fn", "sp", "{shlex.quote(k)}", "sp", "lb", "sp",
                           "{escape_function_body(v)}", "sp", "rb", "lf">>],
      es |->
        [name |-> "es",
         alias_fmt |-> <<"fn-", "{shlex.quote(k)}", "sp", "eq", "sp", "lb", "sp",
                        "{escape_function_body(v)}", "sp", "rb", "lf">>,
         env_fmt |-> <<"{shlex.quote(k)}", "eq", "{shlex.quote(v)}", "lf">>,
         function_fmt |-> <<"fn-", "{shlex.quote(k)}", "sp", "eq", "sp", "lb", "sp",
                           "{escape_function_body(v)}", "sp", "rb", "lf">>],
      nushell |->
        [name |-> "nushell",
         alias_fmt |-> <<"alias", "sp", "{shlex.quote(k)}", "sp", "eq", "sp",
                        "{escape_function_body(v)}", "lf">>,
         env_fmt |-> <<"let-env", "sp", "{shlex.quote(k)}", "sp", "eq", "sp",
                      "{shlex.quote(v)}", "lf">>,
         function_fmt |-> <<"def", "sp", "{shlex.quote(k)}", "sp", "lbk", "rbk", "sp", "lb", "sp",
                           "{escape_function_body(v)}", "sp", "rb", "lf">>],
      powershell |->
        [name |-> "powershell",
         alias_fmt |-> <<"Set-Alias", "sp", "-Name", "sp", "{shlex.quote(k)}", "sp", "-Value",
                        "sp", "{shlex.quote(v)}", "lf">>,
         env_fmt |-> <<"dl", "env:", "{shlex.quote(k)}", "sp", "eq", "sp", "{shlex.quote(v)}",
                      "lf">>,
         function_fmt |-> <<"function", "sp", "{shlex.quote(k)}", "sp", "lb", "sp",
                           "{escape_function_body(v)}", "sp", "rb", "lf">>],
      oil |->
        [name |-> "oil",
         alias_fmt |-> <<"alias", "sp", "{shlex.quote(k)}", "eq", "{shlex.quote(v)}", "lf">>,
         env_fmt |-> <<"export", "sp", "{shlex.quote(k)}", "eq", "{shlex.quote(v)}", "lf">>,
         function_fmt |-> <<"{shlex.quote(k)}", "lp", "rp", "sp", "lb", "lf", "sp", "sp", "sp",
                           "sp", "{escape_function_body(v)}", "lf", "rb", "lf">>],
      default |->
        [name |-> "default",
         alias_fmt |-> <<"alias", "sp", "{shlex.quote(k)}", "eq", "{shlex.quote(v)}", "lf">>,
         env_fmt |-> <<"export", "sp", "{shlex.quote(k)}", "eq", "{shlex.quote(v)}", "lf">>,
         function_fmt |-> <<"{shlex.quote(k)}", "lp", "rp", "sp", "lb", "lf", "sp", "sp", "sp",
                           "sp", "{escape_function_body(v)}", "lf", "rb", "lf">>] ]

\* the value of an f-string of the registry for a key k and a value v
RECURSIVE fstring(_, _, _)
fstring(fmt, k, v) ==
    IF fmt = <<>> THEN <<>>
    ELSE (CASE Head(fmt) = "{shlex.quote(k)}" -> shlex_quote(k)
            [] Head(fmt) = "{shlex.quote(v)}" -> shlex_quote(v)
            [] Head(fmt) = "{escape_function_body(v)}" -> escape_function_body(v)
            [] OTHER -> <<Head(fmt)>>) \o fstring(Tail(fmt), k, v)

\* a lookup that falls back to the fish dialect
get_shell_syntax_FishFallback(shell_name) ==
    IF shell_name \in DOMAIN SHELLS THEN SHELLS[shell_name] ELSE SHELLS["fish"]

\* get_shell_syntax: SHELLS.get(shell_name, SHELLS["default"])
get_shell_syntax(shell_name) ==
    IF shell_name \in DOMAIN SHELLS THEN SHELLS[shell_name] ELSE SHELLS["default"]

----------------------------------------------------------------------------
(* How a POSIX shell reads a text: between single quotes every character is *)
(* literal; between double quotes every character but $ ` \ and the closing *)
(* quote; outside quotes a blank ends the word, a backslash makes the next  *)
(* character literal, and the characters of ShellMeta have a meaning of     *)
(* their own.  The result is the sequence of what was read: words, and      *)
(* characters that were interpreted; ok is FALSE when a quote is not closed.*)

ShellMeta == {"lf", "sc", "dl", "bt", "lp", "rp", "lb", "rb", "lbk", "rbk", "hash",
              "amp", "pipe", "lt", "gt"}

Word(text) == [t |-> "word", v |-> text]
Meta(c) == [t |-> "meta", v |-> <<c>>]

\* the tokens read so far, with the word being read (if any) ended
Flush(toks, cur, inword) == IF inword THEN Append(toks, Word(cur)) ELSE toks

RECURSIVE PosixRead(_, _, _, _, _, _)
PosixRead(src, pos, mode, cur, inword, toks) ==
    IF pos > Len(src)
    THEN [ok |-> mode = "plain", toks |-> Flush(toks, cur, inword)]
    ELSE IF mode = "sq"
    THEN IF src[pos] = "sq" THEN PosixRead(src, pos + 1, "plain", cur, TRUE, toks)
         ELSE PosixRead(src, pos + 1, "sq", Append(cur, src[pos]), TRUE, toks)
    ELSE IF mode = "dq"
    THEN IF src[pos] = "dq" THEN PosixRead(src, pos + 1, "plain", cur, TRUE, toks)
         ELSE IF src[pos] \in {"dl", "bt"}
         THEN PosixRead(src, pos + 1, "dq", <<>>, FALSE,
                        Append(Flush(toks, cur, inword), Meta(src[pos])))
         ELSE IF src[pos] = "bs" /\ pos < Len(src)
                 /\ src[pos + 1] \in {"dl", "bt", "dq", "bs"}
         THEN PosixRead(src, pos + 2, "dq", Append(cur, src[pos + 1]), TRUE, toks)
         ELSE PosixRead(src, pos + 1, "dq", Append(cur, src[pos]), TRUE, toks)
    ELSE IF src[pos] = "sq" THEN PosixRead(src, pos + 1, "sq", cur, TRUE, toks)
    ELSE IF src[pos] = "dq" THEN PosixRead(src, pos + 1, "dq", cur, TRUE, toks)
    ELSE IF src[pos] \in {"sp", "tab"}
    THEN PosixRead(src, pos + 1, "plain", <<>>, FALSE, Flush(toks, cur, inword))
    ELSE IF src[pos] \in ShellMeta
    THEN PosixRead(src, pos + 1, "plain", <<>>, FALSE,
                   Append(Flush(toks, cur, inword), Meta(src[pos])))
    ELSE IF src[pos] = "bs" /\ pos < Len(src)
    THEN PosixRead(src, pos + 2, "plain", Append(cur, src[pos + 1]), TRUE, toks)
    ELSE PosixRead(src, pos + 1, "plain", Append(cur, src[pos]), TRUE, toks)

posix_parse(text) == PosixRead(text, 1, "plain", <<>>, FALSE, <<>>)

----------------------------------------------------------------------------
(* The shell specification: a shell name, a key and a value are drawn at    *)
(* the start; the value is quoted, and the dialect found for the name       *)
(* renders the item as an alias, an environment variable and a function.    *)

ShellChars == {"a", "sp", "sq", "dq", "bt", "dl", "lp", "lf", "sc", "rb"}

\* echo it's here
EchoItsHere == <<"e", "c", "h", "o", "sp", "i", "t", "sq", "s", "sp", "h", "e", "r", "e">>

\* shell names outside the registry
OtherShells == {"nosh", ""}

Formats == {"alias_fmt", "env_fmt", "function_fmt"}

InitShell(names, size) ==
    /\ loaded = FALSE
    /\ groups = <<>>
    /\ cache = [i \in Inst |-> CacheAttrs0]
    /\ classCache = ClassAttrs0
    /\ cfgFile = MissingCfg
    /\ activeFile = MissingActive
    /\ activeMtime = 0
    /\ loader = MissingLoader
    /\ groupFiles = [n \in Names |-> MissingGroupFile]
    /\ clock = 0
    /\ tomliw = FALSE
    /\ stamped = TRUE
    /\ backups = NoBackups
    /\ \E sh \in names, k \in Keys, v \in SeqsUpTo(ShellChars, size) \cup {EchoItsHere} :
          last = [op |-> "init", shell |-> sh, key |-> k, value |-> v, syntax |-> None,
                  out |-> <<>>]

\* shlex.quote(value)
ShQuote ==
    /\ last' = [last EXCEPT !.op = "quote", !.syntax = None,
                            !.out = shlex_quote(last.value)]
    /\ UNCHANGED <<loaded, groups, cache, classCache, cfgFile, activeFile, activeMtime,
                   loader, groupFiles, clock, tomliw, stamped, backups>>

\* get_shell_syntax(shell).alias_fmt(key, value), and env_fmt, function_fmt
ShFormat(f) ==
    \E syntax \in {get_shell_syntax(last.shell)} :
        /\ last' = [last EXCEPT !.op = f, !.syntax = syntax.name,
                                !.out = fstring(syntax[f], last.key, last.value)]
        /\ UNCHANGED <<loaded, groups, cache, classCache, cfgFile, activeFile,
                       activeMtime, loader, groupFiles, clock, tomliw, stamped, backups>>

\* escape_function_body(value)
ShEscapeBody ==
    /\ last' = [last EXCEPT !.op = "escape_function_body", !.syntax = None,
                            !.out = escape_function_body(last.value)]
    /\ UNCHANGED <<loaded, groups, cache, classCache, cfgFile, activeFile, activeMtime,
                   loader, groupFiles, clock, tomliw, stamped, backups>>

NextShell ==
    \/ ShQuote
    \/ ShEscapeBody
    \/ \E f \in Formats : ShFormat(f)

\* every name, values of up to MaxText - 2 characters
SpecShell == InitShell(DOMAIN SHELLS \cup OtherShells, MaxText - 2) /\ [][NextShell]_vars

\* the bash dialect, values of up to MaxText characters
SpecQuote == InitShell({"bash"}, MaxText) /\ [][NextShell]_vars

----------------------------------------------------------------------------
(* Properties of the shell specifications *)

\* C18: get_shell_syntax returns, for a name of the registry, the dialect
\* registered under that name and, for every other name, the dialect
\* "default", whose alias, env-var and function output is that of bash
C18_LookupTotal ==
    last.op \in Formats
        => /\ last.shell \in DOMAIN SHELLS
                => /\ last.syntax = last.shell
                   /\ last.out = fstring(SHELLS[last.shell][last.op], last.key, last.value)
           /\ last.shell \notin DOMAIN SHELLS
                => /\ last.syntax = "default"
                   /\ last.out = fstring(SHELLS["bash"][last.op], last.key, last.value)

\* C18 happens: a function with a single quote in its body was rendered for
\* a shell name that the registry does not hold
C18_Witness ==
    /\ last.op = "function_fmt"
    /\ last.shell \in OtherShells
    /\ InSeq("sq", last.value)
    /\ last.out # <<>>

\* C19: the token shlex.quote emits for a value (a valid key, the empty
\* string, a value with quotes, backticks, $ or newlines) is read back under
\* the POSIX quoting rules as one word, the value itself, with no character
\* interpreted; the bash alias line is read as the word alias, the word
\* key=value and the newline that ends the command
C19_QuoteRoundTrip ==
    /\ last.op = "quote"
        => posix_parse(last.out) = [ok |-> TRUE, toks |-> <<Word(last.value)>>]
    /\ last.op = "alias_fmt" /\ last.shell = "bash"
        => posix_parse(last.out)
             = [ok |-> TRUE,
                toks |-> <<Word(<<"alias">>), Word(last.key \o <<"eq">> \o last.value),
                           Meta("lf")>>]

\* C19 happens: the bash alias line of the value echo it's here
C19_Witness ==
    /\ last.op = "alias_fmt"
    /\ last.shell = "bash"
    /\ last.value = EchoItsHere
    /\ last.out = <<"alias", "sp", "l", "l", "eq", "sq", "e", "c", "h", "o", "sp", "i", "t",
                    "sq", "dq", "sq", "dq", "sq", "s", "sp", "h", "e", "r", "e", "sq", "lf">>

\* the last word read from the line ends with the value: the value was read
\* as one literal, and no character of it was interpreted
ValueIsLiteral(line, value) ==
    \E r \in {posix_parse(line)} :
        /\ r.ok
        /\ \E i \in 1..Len(r.toks) :
              /\ r.toks[i].t = "word"
              /\ \A j \in (i+1)..Len(r.toks) : r.toks[j].t # "word"
              /\ Len(r.toks[i].v) >= Len(value)
              /\ SubSeq(r.toks[i].v, Len(r.toks[i].v) - Len(value) + 1, Len(r.toks[i].v))
                    = value

\* C20: in every dialect the alias line and the env-var line hold the value
\* inside one quoted literal, no character of it outside
C20_ValueQuoted ==
    last.op \in {"alias_fmt", "env_fmt"} => ValueIsLiteral(last.out, last.value)

\* the text with each '"'"' put back to a single quote, read from the left;
\* a single quote that does not start one is kept
RECURSIVE Unescaped(_)
Unescaped(text) ==
    IF text = <<>> THEN <<>>
    ELSE IF HasAt(text, 1, <<"sq", "dq", "sq", "dq", "sq">>)
    THEN <<"sq">> \o Unescaped(SubSeq(text, 6, Len(text)))
    ELSE <<Head(text)>> \o Unescaped(Tail(text))

NotSingleQuote(c) == c # "sq"

\* C21: escape_function_body returns, for every body, the body with each
\* single quote replaced by '"'"' and every other character as it was and
\* where it was; a body without a single quote is returned as it is
C21_BodyEscaping ==
    last.op = "escape_function_body"
        => /\ Unescaped(last.out) = last.value
           /\ Len(last.out)
                = Len(last.value) + 4 * (Len(last.value)
                                           - Len(SelectSeq(last.value, NotSingleQuote)))
           /\ ~InSeq("sq", last.value) => last.out = last.value

\* C21 happens: a body with a single quote, a double quote and a character
\* the shell interprets was escaped
C21_Witness ==
    /\ last.op = "escape_function_body"
    /\ InSeq("sq", last.value)
    /\ InSeq("dq", last.value)
    /\ InSeq("dl", last.value)
    /\ Len(last.out) > Len(last.value)

----------------------------------------------------------------------------
(* Further properties of the cache specification *)

\* C26: the load_active_groups that follows Config.clear_all_caches(), on
\* either Config object, re-reads an existing state file
C26_ClearForcesReread ==
    [][ (last.op = "clear_all_caches" /\ last'.op = "load" /\ activeFile.exists)
            => last'.reread ]_vars

NoDuplicates(names) == \A i, j \in 1..Len(names) : names[i] = names[j] => i = j

\* C27: starting from a missing, empty or duplicate-free state file, the
\* active groups read from the state file never hold a name twice, and when
\* deactivate_group(name) returns True the same object's is_group_active(name)
\* is False right after it
C27_NoDuplicateActive ==
    [][ /\ NoDuplicates(ReadActiveFile(activeFile'.lines))
        /\ (last'.op = "deactivate"
             /\ Config_deactivate_group(cache[last'.inst], classCache, activeFile,
                                        activeMtime, clock, last'.names[1]).ret)
            => /\ ~is_group_active(cache'[last'.inst], classCache', activeFile',
                                   activeMtime', last'.names[1]).ret
               /\ ~InSeq(last'.names[1], ReadActiveFile(activeFile'.lines)) ]_vars

----------------------------------------------------------------------------
(* The blank-name specification: the cache specification on a Configuration *)
(* with the groups "work" and " work" (no call checks a group name).        *)

\* the most lines the state file holds
MaxActive == 3

InitBlank ==
    /\ loaded = TRUE
    /\ groups = <<GroupData("work"), GroupData(BlankWork)>>
    /\ cache = [i \in Inst |-> CacheAttrs0]
    /\ classCache = ClassAttrs0
    /\ tomliw = TRUE
    /\ cfgFile = [exists |-> TRUE, sections |-> save_config_securely(groups, tomliw)]
    /\ activeFile \in {MissingActive, [exists |-> TRUE, lines |-> <<>>],
                        [exists |-> TRUE, lines |-> <<"work">>]}
    /\ activeMtime = 0
    /\ loader = MissingLoader
    /\ groupFiles = [n \in Names |-> MissingGroupFile]
    /\ clock = 0
    /\ stamped = TRUE
    /\ backups = NoBackups
    /\ last = CacheCall("init", 0, <<>>, FALSE)

NextBlank ==
    \/ Tick
    \/ \E i \in Inst : CfgLoadActive(i)
    \/ \E i \in Inst, n \in {"work", BlankWork} :
            Len(activeFile.lines) < MaxActive /\ CfgActivate(i, n)
    \/ \E i \in Inst, n \in {"work", BlankWork} : CfgDeactivate(i, n)

SpecBlank == InitBlank /\ [][NextBlank]_vars

----------------------------------------------------------------------------
(* The loader and the activation state, in the manager specification *)

LoaderOps == {"add_item", "remove_item", "activate_group", "deactivate_group"}
LoaderCmds == {"cmd_add", "cmd_activate"}

\* C22: when ShtickManager.activate_group or deactivate_group returns true,
\* and when an item was added or removed (by the manager, or by a shtick
\* command that exits with 0), the call rendered the loader after it wrote
\* the active set: at the end of the call the loader sources the persistent
\* group and exactly the names the state file holds
C22_LoaderFollowsActivation ==
    [][ (\/ last'.op \in LoaderOps /\ last'.ret = "True"
         \/ last'.op \in LoaderCmds /\ last'.exit = {0})
        => /\ last'.regen
           /\ loader'.exists
           /\ loader'.sources = {Persistent} \cup ToSet(ReadActiveFile(activeFile'.lines)) ]_vars

\* C22 happens: a group was deactivated and the loader, which sourced it,
\* sources the persistent group alone
C22_Witness ==
    /\ last.op = "deactivate_group"
    /\ last.ret = "True"
    /\ last.name = "work"
    /\ activeFile.exists
    /\ ActiveGroupSet = <<>>
    /\ loader.exists
    /\ loader.sources = {Persistent}
    /\ get_group(groups, "work") # 0

\* the groups whose files a shell reads through the loader: the persistent
\* group and the groups the state file names, as far as the Configuration
\* has them
Visible(gs) ==
    { i \in 1..Len(gs) : gs[i].name = Persistent \/ InSeq(gs[i].name, ActiveGroupSet) }

\* C23: after any sequence of manager calls and shtick commands (add and
\* remove an item, group create, activate, deactivate), the generated file of
\* the persistent group and of every active group of the Configuration exists
\* and holds what the group holds now, as generating every group would leave
\* it
C23_IncrementalIsFull ==
    \A i \in Visible(CurrentGroups) :
        groupFiles[CurrentGroups[i].name] = GroupContent(CurrentGroups[i])

\* C25: a successful ShtickManager add or remove of an item changes no file
\* of another group, and no group file at all when the item's group is
\* neither the persistent group nor active
C25_OnlyAffectedRegenerated ==
    [][ (last'.op \in {"add_item", "remove_item"} /\ last'.ret = "True")
        => \A n \in Names :
              (\/ n # last'.name
               \/ (n # Persistent /\ ~InSeq(n, ReadActiveFile(activeFile'.lines))))
              => groupFiles'[n] = groupFiles[n] ]_vars

----------------------------------------------------------------------------
(* shtick.py: backups of the config file.  The backup specification: a      *)
(* manager edits one group, activates it, takes backups and restores them,  *)
(* and shtick generate is run on a config file of its own.                  *)

AllOf(gs) == [i \in 1..Len(gs) |-> i]

\* Generator.generate_all: every group's file, then the loader
generate_all(s) ==
    generate_loader([s EXCEPT !.groupFiles =
                        generate_for_groups(s.groupFiles, s.groups, AllOf(s.groups))])

\* ShtickManager.generate_shell_files
generate_shell_files(s) ==
    The({ IF c.raised # None THEN Result(FALSE, c.s, FALSE)
          ELSE Result(TRUE, generate_all(c.s), TRUE)
          : c \in {_get_config(s)} })

\* ShtickManager._load_config(create_if_missing=False): self._config is
\* assigned after the load, so a load that raises leaves the old object
_load_config_NoCreate(s) ==
    The({ IF r.raised = None
          THEN [raised |-> None,
                s |-> [s EXCEPT !.loaded = TRUE, !.cache = CacheAttrs0,
                                !.groups = r.groups]]
          ELSE [raised |-> r.raised, s |-> s]
          : r \in {ConfigLoad(<<>>, s.cfgFile)} })

BackupResult(ret, raised, s, bk) == [ret |-> ret, raised |-> raised, s |-> s, bk |-> bk]

\* ShtickManager.backup_config(name): shutil.copy2 of the config file
backup_config(s, bk, name) ==
    The({ IF c.raised # None THEN BackupResult(None, c.raised, c.s, bk)
          ELSE IF c.s.cfgFile.exists
          THEN BackupResult("path", None, c.s,
                            [bk EXCEPT ![name] = [exists |-> TRUE,
                                                  sections |-> c.s.cfgFile.sections]])
          ELSE BackupResult(None, "FileNotFoundError", c.s, bk)
          : c \in {_get_config(s)} })

\* ShtickManager.restore_backup(name).  Of possible_names only
\* config_<name>.toml is a file backup_config writes.  The current config
\* is saved under "before_restore" first (a failure of that is passed
\* over), then the backup file, as it is by then, is copied over the
\* config file, the configuration loaded anew and every file generated; the
\* result of generate_shell_files is not looked at.
restore_backup(s, bk, name) ==
    The({ IF c.raised # None THEN BackupResult(None, c.raised, c.s, bk)
          ELSE IF ~bk[name].exists THEN BackupResult("False", None, c.s, bk)
          ELSE The({ The({ IF l.raised # None
                           THEN BackupResult(None, l.raised, l.s, b.bk)
                           ELSE BackupResult("True", None, generate_shell_files(l.s).s, b.bk)
                           : l \in {_load_config_NoCreate(
                                       [b.s EXCEPT !.cfgFile =
                                           [exists |-> TRUE,
                                            sections |-> b.bk[name].sections]])} })
                     : b \in {backup_config(c.s, bk, BeforeRestore)} })
          : c \in {_get_config(s)} })

\* ShtickCommands.generate(config_path): a manager of its own on the custom
\* config file, which validate_config_path requires to exist; custom are
\* the groups that file holds
Cmd_generate(s, custom) ==
    The({ IF g.ret THEN Exited(0, g.s, TRUE) ELSE Exited(1, g.s, FALSE)
          : g \in {generate_shell_files([Fresh(s) EXCEPT !.loaded = TRUE,
                                                         !.groups = custom])} })

\* the custom config files shtick generate is given
CustomConfigs ==
    { <<[GroupData("dev") EXCEPT !.aliases = MapSet(EmptyMap, <<"l", "l">>, <<"e">>)]>> }

InitBackup ==
    /\ loaded = FALSE
    /\ groups = <<>>
    /\ cache = [i \in Inst |-> CacheAttrs0]
    /\ classCache = ClassAttrs0
    /\ cfgFile = MissingCfg
    /\ activeFile = MissingActive
    /\ activeMtime = 0
    /\ loader = MissingLoader
    /\ groupFiles = [n \in Names |-> MissingGroupFile]
    /\ clock = 0
    /\ tomliw \in BOOLEAN
    /\ stamped = TRUE
    /\ backups = NoBackups
    /\ last = NoCall

\* manager.backup_config(b)
BkBackup(b) ==
    \E r \in {backup_config(St, backups, b)} :
        /\ BecomesState(r.s)
        /\ backups' = r.bk
        /\ last' = Call("backup_config", b, IF r.raised = None THEN r.ret ELSE "raised",
                        NoExit, FALSE)

\* manager.restore_backup(b)
BkRestore(b) ==
    \E r \in {restore_backup(St, backups, b)} :
        /\ BecomesState(r.s)
        /\ backups' = r.bk
        /\ last' = Call("restore_backup", b, IF r.raised = None THEN r.ret ELSE "raised",
                        NoExit, r.ret = "True")

\* shtick generate <custom config path>
CmdGenerate(custom) ==
    \E r \in {Cmd_generate(St, custom)} :
        /\ Becomes(r.s)
        /\ last' = Call("cmd_generate", None, None, {r.exit}, r.regen)

NextBackup ==
    \/ \E t \in {"alias"}, k \in Keys, v \in Values : ManagerAddItem(t, "work", k, v)
    \/ \E t \in {"alias"}, k \in Keys : ManagerRemoveItem(t, "work", k)
    \/ ManagerActivate("work")
    \/ ManagerDeactivate("work")
    \/ CmdGroupCreate("work")
    \/ \E b \in BackupNames : BkBackup(b)
    \/ \E b \in BackupNames : BkRestore(b)
    \/ \E c \in CustomConfigs : CmdGenerate(c)

SpecBackup == InitBackup /\ [][NextBackup]_vars

\* C24: when restore_backup(name) returns true, the config file and the
\* in-memory Configuration hold what the backup held when the call was made,
\* and every group's file and the loader were generated from it
C24_RestoreBackup ==
    [][ (last'.op = "restore_backup" /\ last'.ret = "True")
        => /\ cfgFile'.exists
           /\ cfgFile'.sections = backups[last'.name].sections
           /\ loaded'
           /\ groups' = ParsedGroups(backups[last'.name].sections)
           /\ \A i \in 1..Len(groups') :
                 groupFiles'[groups'[i].name] = GroupContent(groups'[i])
           /\ loader'.exists ]_vars

\* C28: every name the state file holds is a group of the current
\* Configuration
C28_ActiveGroupsExist ==
    \A i \in 1..Len(ActiveGroupSet) : get_group(CurrentGroups, ActiveGroupSet[i]) # 0

----------------------------------------------------------------------------
(* The kind specification: Config.add_item is also given an item type that  *)
(* is none of alias, env and function.                                      *)

UnknownKind == "widget"

NextKind ==
    \/ \E n \in Created : EdAddGroup(n)
    \/ \E t \in Kinds \cup {UnknownKind}, n \in Created, k \in EditKeys, v \in Values :
          EdConfigAdd(t, n, k, v)
    \/ \E t \in Kinds, n \in Names, k \in EditKeys : EdConfigRemove(t, n, k)

SpecKind == InitEdit /\ [][NextKind]_vars

\* C30: Config.add_item with an item type other than alias, env and function
\* raises an error and leaves the Configuration as it was: no item stored, no
\* group added
C30_UnknownKindRejected ==
    [][ (last'.op = "config_add_item" /\ last'.type \notin Kinds)
        => /\ last'.ret = "ValueError"
           /\ groups' = groups ]_vars

----------------------------------------------------------------------------
(* The failure specification: the calls of a ShtickManager that change      *)
(* something, and an add during whose save a write raises.                  *)

\* ShtickManager._add_item when the write after the first n writes of
\* config.save() raises (an OSError, or UnicodeEncodeError for a value that
\* cannot be encoded): the file stays as far as it was written, and the
\* except clause returns False
_add_item_WriteRaises(s, item_type, name, key, value, n) ==
    IF ~validate_key(key) \/ ~validate_value(value) THEN Result(FALSE, s, FALSE)
    ELSE The({ IF c.raised # None THEN Result(FALSE, c.s, FALSE)
               ELSE The({ IF ai.raised # None
                          THEN Result(FALSE, [c.s EXCEPT !.groups = ai.groups], FALSE)
                          ELSE The({ Result(FALSE,
                                            [af.s EXCEPT !.cfgFile =
                                                [exists |-> TRUE,
                                                 sections |->
                                                    Written(save_config_securely(
                                                                af.s.groups, af.s.tomliw),
                                                            n)]],
                                            FALSE)
                                     : af \in {Affected([c.s EXCEPT !.groups = ai.groups],
                                                        name)} })
                          : ai \in {add_item(c.s.groups, item_type, name, key, value)} })
               : c \in {_get_config(s)} })

\* manager.add_alias / add_env / add_function while the n+1st write of the
\* save raises
ManagerAddItemWriteRaises(item_type, name, key, value, n) ==
    /\ n < Len(SaveWrites(save_config_securely(
                              add_item(CurrentGroups, item_type, name, key, value).groups,
                              tomliw), 1))
    /\ \E r \in {_add_item_WriteRaises(St, item_type, name, key, value, n)} :
        /\ TotalItems(r.s.groups) <= MaxItems
        /\ Becomes(r.s)
        /\ last' = Call("add_item", name, Bool(r.ret), NoExit, r.regen)

NextFail ==
    \/ \E n \in Created, k \in Keys, v \in Values : ManagerAddItem("alias", n, k, v)
    \/ \E n \in Created, k \in Keys, v \in Values, w \in 0..(MaxItems + 1) :
          ManagerAddItemWriteRaises("alias", n, k, v, w)
    \/ \E n \in Created, k \in Keys : ManagerRemoveItem("alias", n, k)
    \/ ManagerActivate("work")
    \/ ManagerDeactivate("work")

SpecFail == Init /\ [][NextFail]_vars

\* C29: a ShtickManager add, remove, activate_group or deactivate_group that
\* returns False has changed nothing: the Configuration the manager works on,
\* the config file and the names the state file holds are as before the call
C29_FailureChangesNothing ==
    [][ (last'.op \in LoaderOps /\ last'.ret = "False")
        => /\ CurrentGroups' = CurrentGroups
           /\ cfgFile' = cfgFile
           /\ ReadActiveFile(activeFile'.lines) = ActiveGroupSet ]_vars

====
